---- MODULE Spec2Model ----
(***************************************************************************)
(* Export pagination and rasterization pipeline of markdown-stylizer-      *)
(* online: paginate, getPageMetrics, rasterizePages, exportPngZip and      *)
(* exportPdf, modelled as one state machine, and the click handlers of the *)
(* application's export controls as a second one.  One action is one       *)
(* synchronous run of the code between two suspension points (await).      *)
(*                                                                         *)
(* Numbers.  JavaScript numbers that carry pixels (and the maxPages        *)
(* option, which the code passes through Math.floor) are fixed-point       *)
(* integers with PxScale units per 1, so 3.78 px is 378 and 2.5 pages is   *)
(* 250.  Counts and indices (pageCount, rawCount, safeMax, loop indices)   *)
(* and millimetres are plain integers.  NaN and the infinities are not     *)
(* represented, and fixed-point arithmetic is exact where IEEE doubles     *)
(* round.                                                                  *)
(***************************************************************************)
EXTENDS Integers, Sequences, FiniteSets, TLC

\* ------------------------------------------------------------------ bounds
MaxCalls == 2          \* calls made on one page load
MaxContentSteps == 4   \* measured content height: 0..MaxContentSteps page heights
MaxPagesHalves == 5    \* the maxPages option of an export: 0, 0.5, .. MaxPagesHalves/2
MaxPgTotalHalves == 8  \* paginate called directly: total up to MaxPgTotalHalves/2 px
MaxPgHeightHalves == 5 \* paginate called directly: page height up to this/2 px
MaxPgMaxHalves == 6    \* paginate called directly: maxPages up to this/2
MaxImages == 1         \* img elements in the preview content
MaxClicks == 3         \* clicks on export controls on one page load
MaxAppContentPages == 12 \* content heights the application exports, in pages
MaxProbeQuarters == 16 \* density probe: 0, 0.25, .. MaxProbeQuarters/4 px per mm
MaxFontOps == 3        \* font imports, selections and reloads
MaxSettingsOps == 3    \* updateSettings calls and page loads
MaxResolves == 3       \* renders and exports that resolve images
MaxStores == 2         \* storeImageFile calls
MaxEdits == 6          \* editor updates on one page load
MaxTexts == 4          \* distinct texts typed

\* ------------------------------------------------------------ JS numbers
PxScale == 100
Half == PxScale \div 2
Px(n) == n * PxScale

MathMax(a, b) == IF a >= b THEN a ELSE b
MathMin(a, b) == IF a <= b THEN a ELSE b
\* Math.floor of a fixed-point number, as a plain integer
MathFloor(x) == x \div PxScale
\* Math.ceil(a / b) for fixed-point a and b > 0, as a plain integer
MathCeilOfQuotient(a, b) == -((-a) \div b)

\* ------------------------------------------------------------ pageMetrics
DefaultPxPerMm == 378
DefaultPageWidthMm == 210
DefaultPageHeightMm == 297
DefaultMarginMm == 20

measurePxPerMm_noFallback(probeWidthPx) == probeWidthPx

\* measurePxPerMm: the probe's measured width, or 3.78 when it measures 0
measurePxPerMm(probeWidthPx) ==
  IF probeWidthPx # 0 THEN probeWidthPx ELSE DefaultPxPerMm

getPageMetrics(probeWidthPx, pageWidthMm, pageHeightMm, marginMm) ==
  LET pxPerMm == measurePxPerMm(probeWidthPx)
      pageWidthPx == pageWidthMm * pxPerMm
      pageHeightPx == pageHeightMm * pxPerMm
      marginPx == marginMm * pxPerMm
  IN  [pageWidthPx |-> pageWidthPx,
       pageHeightPx |-> pageHeightPx,
       marginPx |-> marginPx,
       contentWidthPx |-> pageWidthPx - marginPx * 2,
       contentHeightPx |-> pageHeightPx - marginPx * 2,
       pxPerMm |-> pxPerMm]

\* --------------------------------------------------------------- paginate
safePageHeightOf_abs(pageContentHeightPx) ==
  IF pageContentHeightPx = 0 THEN Px(1)
  ELSE IF pageContentHeightPx < 0 THEN -pageContentHeightPx
  ELSE pageContentHeightPx

safePageHeightOf(pageContentHeightPx) == MathMax(Px(1), pageContentHeightPx)

rawCountOf_nofloor(totalContentHeightPx, safePageHeight) ==
  MathCeilOfQuotient(totalContentHeightPx, safePageHeight)

rawCountOf_floor(totalContentHeightPx, safePageHeight) ==
  MathMax(1, (totalContentHeightPx \div safePageHeight) + 1)

rawCountOf(totalContentHeightPx, safePageHeight) ==
  MathMax(1, MathCeilOfQuotient(totalContentHeightPx, safePageHeight))

safeMaxOf(maxPages) == MathMax(1, MathFloor(maxPages))

offsetsOf_extra(pageCount, safePageHeight) ==
  [index \in 1..(pageCount + 1) |-> (index - 1) * safePageHeight]

offsetsOf_oneBased(pageCount, safePageHeight) ==
  [index \in 1..pageCount |-> index * safePageHeight]

\* Array.from({length: pageCount}, (_, index) => index * safePageHeight);
\* the sequence is 1-based, the code's index is 0-based
offsetsOf(pageCount, safePageHeight) ==
  [index \in 1..pageCount |-> (index - 1) * safePageHeight]

paginate(totalContentHeightPx, pageContentHeightPx, maxPages) ==
  LET safePageHeight == safePageHeightOf(pageContentHeightPx)
      rawCount == rawCountOf(totalContentHeightPx, safePageHeight)
      safeMax == safeMaxOf(maxPages)
      pageCount == MathMin(rawCount, safeMax)
  IN  [pageCount |-> pageCount,
       pageContentHeightPx |-> safePageHeight,
       totalContentHeightPx |-> totalContentHeightPx,
       offsets |-> offsetsOf(pageCount, safePageHeight),
       clamped |-> rawCount # pageCount]

\* ------------------------------------------------------------------ state
VARIABLES
  op,          \* the operation called last: "none", "paginate", "rasterizePages",
               \* "exportPngZip", "exportPdf"
  pc,          \* the suspension point the call in flight waits at
  env,         \* the page: [probeWidthPx, marginMm] and the img elements of
               \* the preview content, [imgs, brokenImgs]
  args,        \* the arguments of the call, and the content height it meets
  callNo,      \* number of calls started
  settled,     \* what the caller holds: [status, value]
  docRoots,    \* calls whose export root is attached to document.body
  rootKids,    \* children of the export root of the current call
  pendingImgs, \* images the current waitForImages still waits for
  pendingBroken, \* those of them that will fire error, not load
  metrics,     \* getPageMetrics() of the call
  pagination,  \* the call's local const pagination
  pages,       \* rasterizePages' local array pages
  pageIndex,   \* position of the for-of loop in pagination.offsets (1-based)
  progress,    \* the onProgress notifications of the call, in order
  confirms,    \* answers given to window.confirm during the call, in order
  zipEntries,  \* files added to the JSZip archive, in order
  zipIndex,    \* exportPngZip's loop variable index
  downloads,   \* files whose download the call triggered
  dom,         \* the document the application shows: the inline style and
               \* place of the page shell and of the preview content in it
  disabled,    \* the application's export buttons: the .disabled flag of each
  handlers,    \* the click handlers started on the page, each with its await
  warn,        \* fontStatus is "not_cached" and settings.warnOnOfflineFont
  settings,    \* the application's settings: [advancedPages, maxPages]
  lastExport,  \* the export the application started last, with the settings
               \* it was started under and the pagination it computed
  fontFamily,  \* settings.fontFamily
  variantStore, \* localStorage "mso-font-variants": family -> variants
  fontCache,   \* Cache Storage "mso-fonts-v1": URL -> response
  documentFonts, \* the faces added to document.fonts
  requested,   \* URLs loadFontFamily has fetched
  fontJobs,    \* font loads in flight, each at the variant it takes next
  fontOps,      \* number of font operations started
  currentMarkdown,   \* the text of the editor
  previewHtml,   \* preview.innerHTML
  timers,   \* the timeouts pending, by id
  handle,   \* debounce's closure variable handle
  edits,   \* editor updates so far
  rendersSinceEdit,   \* renders run since the last editor update
  fontStatus,   \* fontStatus.dataset.status, the label
  statusFamily,   \* the family of the ensureFontLoaded call that wrote the label
  statusJobs,   \* ensureFontLoaded calls in flight, each at its await
  imageDb,   \* the object store "images" of IndexedDB, keyed by id
  blobUrlCache,   \* blobUrlCache of images.ts
  objectUrls,   \* how many times URL.createObjectURL ran for each id
  images,   \* the img elements of the preview and of the export clone
  blobCalls,   \* getBlobUrl calls waiting for getImage
  resolves,   \* renders and exports so far
  storeCalls,   \* storeImageFile calls: file, id and outcome
  uuids,   \* ids handed out by crypto.randomUUID
  appSettings,   \* settings of app.ts, every field
  localStorage,   \* the item "mso-settings" of localStorage
  session,   \* the settings when the page was left and what the next load returned
  settingsOps   \* updateSettings calls and page loads so far

exportVars ==
  <<op, pc, env, args, callNo, settled, docRoots, rootKids, pendingImgs,
    pendingBroken, metrics, pagination, pages, pageIndex, progress, confirms,
    zipEntries, zipIndex, downloads, dom>>
appVars == <<disabled, handlers, warn>>
settingsVars == <<settings, lastExport>>
fontVars ==
  <<fontFamily, variantStore, fontCache, documentFonts, requested, fontJobs,
    fontOps>>
debounceVars == <<currentMarkdown, previewHtml, timers, handle, edits, rendersSinceEdit>>
statusVars == <<fontStatus, statusFamily, statusJobs>>
imageVars == <<imageDb, blobUrlCache, objectUrls, images, blobCalls, resolves, storeCalls, uuids>>
persistVars == <<appSettings, localStorage, session, settingsOps>>
vars == <<exportVars, appVars, settingsVars, fontVars, debounceVars, statusVars, imageVars, persistVars>>
\* what the export module, the export controls, the settings and the fonts
\* leave alone
outsideExport == <<appVars, settingsVars, fontVars, debounceVars, statusVars, imageVars, persistVars>>
outsideApp == <<exportVars, settingsVars, fontVars, debounceVars, statusVars, imageVars, persistVars>>
outsideSettings == <<exportVars, appVars, fontVars, debounceVars, statusVars, imageVars, persistVars>>
outsideFonts == <<exportVars, appVars, settingsVars, debounceVars, statusVars, imageVars, persistVars>>
outsideDebounce == <<exportVars, appVars, settingsVars, fontVars, statusVars, imageVars, persistVars>>
\* the status label's handlers also set settings.fontFamily and count as a
\* font operation
outsideStatus == <<exportVars, appVars, settingsVars, debounceVars, variantStore, fontCache, documentFonts, requested, fontJobs, imageVars, persistVars>>
outsideImage == <<exportVars, appVars, settingsVars, fontVars, debounceVars, statusVars, persistVars>>
outsidePersist == <<exportVars, appVars, settingsVars, fontVars, debounceVars, statusVars, imageVars>>

NoValue == [none |-> TRUE]
NoArgs == [none |-> TRUE]
NoMetrics == getPageMetrics(0, 0, 0, 0)
NoPagination ==
  [pageCount |-> 0, pageContentHeightPx |-> 0, totalContentHeightPx |-> 0,
   offsets |-> <<>>, clamped |-> FALSE]

Pending == [status |-> "pending", value |-> NoValue]
Fulfilled(v) == [status |-> "fulfilled", value |-> v]
Rejected == [status |-> "rejected", value |-> NoValue]

ExportOps == {"rasterizePages", "exportPngZip", "exportPdf"}
RasterOps == {"rasterizePages", "exportPngZip"}
InFlight == settled.status = "pending"

\* ----------------------------------------------------------------- inputs
\* the maxPages option of an export call, in halves, and the app's default 10
MaxPagesOptions == {k * Half : k \in 0..MaxPagesHalves} \cup {Px(10)}
\* scrollHeight of the measurement clone: a whole number of pixels
ScrollHeights == {Px(k * DefaultPageHeightMm) : k \in 0..MaxContentSteps}
\* width the 1mm probe measures: 0 (no layout), 1 px
ProbeWidths == {0, Px(1)}
\* --page-margin: the default, none, and one wider than half the page
MarginsMm == {0, DefaultMarginMm, DefaultPageHeightMm \div 2 + 2}
\* the img elements of the preview content: how many, and how many of them
\* cannot load (a dead URL, or an appimg:// id without a stored image)
ImageContents ==
  {c \in [imgs : 0..MaxImages, brokenImgs : 0..MaxImages] : c.brokenImgs <= c.imgs}
\* the pages exports run on: every density and margin without images, and
\* the default page with every image content
Envs ==
  {[probeWidthPx |-> p, marginMm |-> m, imgs |-> 0, brokenImgs |-> 0] :
     p \in ProbeWidths, m \in MarginsMm}
  \cup {[probeWidthPx |-> 0, marginMm |-> DefaultMarginMm, imgs |-> c.imgs,
          brokenImgs |-> c.brokenImgs] : c \in ImageContents}
\* arguments of a direct call of paginate
PgTotals == {k * Half : k \in (-1)..MaxPgTotalHalves}
PgHeights == {k * Half : k \in (-2)..MaxPgHeightHalves}
PgMaxPages == {k * Half : k \in (-1)..MaxPgMaxHalves}
PgScenarios ==
  { <<Px(2150), Px(1000), Px(10)>>, <<Px(2150), Px(1000), Px(2)>>,
    <<Px(0), Px(100), Px(10)>> }
PgInputs == (PgTotals \X PgHeights \X PgMaxPages) \cup PgScenarios

\* defaultSettings: maxPages: 10, advancedPages: false
DefaultMaxPages == 10
defaultSettings == [advancedPages |-> FALSE, maxPages |-> Px(DefaultMaxPages)]
\* promptCustomNumber("Custom max pages", settings.maxPages, 1, 50, 1, "pages")
PromptMin == 1
PromptMax == 50
\* no export started yet
NoExport == [button |-> "none", settings |-> defaultSettings, maxPages |-> 0,
             pagination |-> NoPagination]

\* the export controls of the application
Buttons == {"exportPng", "exportFirstPage", "exportPdfButton", "rasterizePreview"}

\* ------------------------------------------------------------------- DOM
\* a node under an export root, with the inline style the export code gives it:
\* offset is the content's upward translation, maxHeightPx is -1 and overflow
\* is "" where the code sets none
MeasureNode == [node |-> "measureNode", offset |-> 0, maxHeightPx |-> -1,
                overflow |-> ""]
RemoveMeasureNode_forgets(kids) == kids

\* measureNode.remove()
RemoveMeasureNode(kids) == kids \ {MeasureNode}

\* the page shell of rasterizePages' loop body, its content translated by -offset
PageShell(offset) == [node |-> "page", offset |-> offset, maxHeightPx |-> -1,
                      overflow |-> "hidden"]
\* toPng(page): the image of that shell
toPng(page) == [translateY |-> -page.offset]

\* an element nothing has styled: lengths are -1 and strings "" where unset
Unstyled ==
  [parent |-> "", width |-> -1, padding |-> -1, margin |-> -1,
   translateY |-> -1, maxHeightPx |-> -1, overflow |-> "", boxShadow |-> "",
   marker |-> FALSE, innerHTML |-> "", imgSrc |-> "", imgMissing |-> FALSE,
   imgHandlers |-> FALSE]

\* <div class="page-shell"><div class="page-marker"></div>
\* <div id="preview" class="preview-content"></div></div>
PreviewDom ==
  [pageShell |-> [Unstyled EXCEPT !.parent = "preview-frame", !.marker = TRUE,
                                  !.innerHTML = "previewContent"],
   previewContent |-> [Unstyled EXCEPT !.parent = "pageShell",
                                       !.imgSrc = "appimg://"]]

cloneNode_self(source) == source

\* source.cloneNode(true): another element, outside the document
cloneNode(source) == "clone of " \o source

\* assignments to properties of one element; an element that is not in the
\* document has its state with the call (rootKids)
setStyle(d, node, changes) ==
  IF node \in DOMAIN d
  THEN LET old == d[node]
       IN  [d EXCEPT ![node] = [f \in DOMAIN old |->
                                  IF f \in DOMAIN changes THEN changes[f]
                                  ELSE old[f]]]
  ELSE d

\* cloneContent(source, widthPx): the clone, its box reset and its width set
ContentClone == cloneNode("previewContent")
cloneContent(d, source, widthPx) ==
  setStyle(d, cloneNode(source), [padding |-> 0, margin |-> 0, width |-> widthPx])

\* parent.appendChild(child), child.remove()
appendChild(d, parent, child) == setStyle(d, child, [parent |-> parent])
removeNode(d, node) == setStyle(d, node, [parent |-> ""])

\* resolveAppImages(container): an appimg:// image of the container gets its
\* blob URL, or the class image-missing when the store has none
resolveAppImages(d, container, e) ==
  IF e.imgs = 0 THEN d
  ELSE setStyle(d, container,
                [imgSrc |-> IF e.brokenImgs < e.imgs THEN "blob:" ELSE "appimg://",
                 imgMissing |-> e.brokenImgs > 0])

\* waitForImages(container): img.onload and img.onerror of the incomplete images
attachImageHandlers(d, container, pending) ==
  IF pending > 0 THEN setStyle(d, container, [imgHandlers |-> TRUE]) ELSE d

\* the family of the font menu the model follows, and the built-in one
FontFamilies == {"Inter"}
SystemFont == "System"
\* getStoredVariants(familyName) of a family never stored: null
NotStored == <<>>
\* cache.match(url) of a URL never cached: undefined
NotCached == [none |-> TRUE]
\* URLs a variant list can name: font files of fonts.gstatic.com, and others
GstaticWoff2 == "https://fonts.gstatic.com/s/a.woff2"
GstaticWoff == "https://fonts.gstatic.com/s/b.woff"
OtherUrls ==
  { "https://fonts.gstatic.com/s/c.ttf",
    "https://fonts.gstatic.com/get?f=a.woff2",
    "https://fonts.gstatic.com.evil.example/a.woff2",
    "http://fonts.gstatic.com/s/a.woff2",
    "https://evil.example/x.woff2",
    "//fonts.gstatic.com/s/a.woff2" }
FontUrls == {GstaticWoff2, GstaticWoff} \cup OtherUrls

\* the markdown texts of the editor: the starter text and what is typed
StarterText == 0
Texts == 1..MaxTexts
\* md.render and DOMPurify.sanitize of a text: the preview's HTML
Render(text) == [html |-> text]
\* debounce's `let handle`: undefined
NoHandle == 0

\* the families of the font menu whose status label the model follows
MenuFonts == {"Inter", "Roboto"}

\* the image database holds one image of an earlier session; the documents
\* refer to it and to an image that was never stored
StoredId == "a"
MissingId == "b"
StoredImage(id, name, mime, size) ==
  [id |-> id, name |-> name, mime |-> mime, size |-> size]
AppImg(id) == "appimg://" \o id
Documents == {<<AppImg(StoredId)>>, <<AppImg(StoredId), AppImg(StoredId)>>,
              <<AppImg(StoredId), AppImg(MissingId)>>}
Containers == {"preview", "export"}
Img(src) == [src |-> src, missing |-> FALSE]
\* the img elements of a container, made by operation number made
Content(made, srcs) ==
  [made |-> made, imgs |-> [i \in DOMAIN srcs |-> Img(srcs[i])]]

\* A settings value: a number (in units of 1/PxScale), a boolean, a string
\* or null, in one shape
Num(n) == [t |-> "number", n |-> n, b |-> FALSE, s |-> ""]
Bool(b) == [t |-> "boolean", n |-> 0, b |-> b, s |-> ""]
Str(s) == [t |-> "string", n |-> 0, b |-> FALSE, s |-> s]
Null == [t |-> "null", n |-> 0, b |-> FALSE, s |-> ""]

SettingsKeys ==
  <<"theme", "fontSize", "lineHeight", "maxWidth", "paragraphSpacing",
    "allowLargeImages", "maxPages", "advancedPages", "pdfMethod",
    "fontFamily", "warnOnOfflineFont">>

\* defaultSettings, every field of it
defaultAppSettings ==
  [theme |-> Str("light"), fontSize |-> Num(Px(15)), lineHeight |-> Num(160),
   maxWidth |-> Num(Px(170)), paragraphSpacing |-> Num(Px(14)),
   allowLargeImages |-> Bool(FALSE), maxPages |-> Num(Px(DefaultMaxPages)),
   advancedPages |-> Bool(FALSE), pdfMethod |-> Str("html2pdf"),
   fontFamily |-> Str(SystemFont), warnOnOfflineFont |-> Bool(TRUE)]

\* localStorage.getItem(settingsKey): an item, or null
NoItem == [present |-> FALSE, text |-> ""]
Item(text) == [present |-> TRUE, text |-> text]
\* no page load seen yet
NoSession == [loaded |-> FALSE, before |-> defaultAppSettings,
              after |-> defaultAppSettings]

\* the state of a freshly loaded page, but for env, args and the stored settings
LoadedApart ==
  /\ op = "none"
  /\ pc = "idle"
  /\ callNo = 0
  /\ settled = [status |-> "none", value |-> NoValue]
  /\ docRoots = {}
  /\ rootKids = {}
  /\ pendingImgs = 0
  /\ pendingBroken = 0
  /\ metrics = NoMetrics
  /\ pagination = NoPagination
  /\ pages = <<>>
  /\ pageIndex = 0
  /\ progress = <<>>
  /\ confirms = <<>>
  /\ zipEntries = <<>>
  /\ zipIndex = 0
  /\ downloads = <<>>
  /\ dom = PreviewDom
  /\ disabled = [b \in Buttons |-> FALSE]
  /\ handlers = <<>>
  /\ lastExport = NoExport
  /\ fontFamily = SystemFont
  /\ variantStore = [f \in FontFamilies |-> NotStored]
  /\ fontCache = [u \in FontUrls |-> NotCached]
  /\ documentFonts = {}
  /\ requested = {}
  /\ fontJobs = {}
  /\ fontOps = 0
  /\ currentMarkdown = StarterText
  /\ previewHtml = Render(StarterText)
  /\ timers = {}
  /\ handle = NoHandle
  /\ edits = 0
  /\ rendersSinceEdit = 0
  /\ fontStatus = "cached"
  /\ statusFamily = SystemFont
  /\ statusJobs = {}
  /\ imageDb = (StoredId :> StoredImage(StoredId, "old.png", "image/png", 1024))
  /\ blobUrlCache = <<>>
  /\ objectUrls = [id \in {StoredId, MissingId} |-> 0]
  /\ images = [c \in Containers |-> Content(0, <<>>)]
  /\ blobCalls = {}
  /\ resolves = 0
  /\ storeCalls = {}
  /\ uuids = 0
  /\ session = NoSession
  /\ settingsOps = 0

\* a freshly loaded page that found no settings stored
Loaded ==
  /\ LoadedApart
  /\ localStorage = NoItem
  /\ appSettings = defaultAppSettings

\* a page load under some display density and page margin
Init ==
  /\ Loaded
  /\ env \in Envs
  /\ args = NoArgs
  /\ warn = FALSE
  /\ settings = defaultSettings

\* what every call starts from: the locals of the previous call are gone
FreshLocals ==
  /\ pagination' = NoPagination
  /\ pages' = <<>>
  /\ pageIndex' = 0
  /\ confirms' = <<>>
  /\ zipEntries' = <<>>
  /\ zipIndex' = 0
  /\ downloads' = <<>>

CanCall == ~InFlight /\ callNo < MaxCalls

\* ------------------------------------------------------- paginate alone
\* a caller about to call the exported pure function paginate with args
InitPaginate ==
  /\ Loaded
  /\ env = [probeWidthPx |-> 0, marginMm |-> DefaultMarginMm, imgs |-> 0,
            brokenImgs |-> 0]
  /\ warn = FALSE
  /\ settings = defaultSettings
  /\ args \in {[totalContentHeightPx |-> in[1], pageContentHeightPx |-> in[2],
                maxPages |-> in[3]] : in \in PgInputs}

\* the call: paginate is synchronous and touches nothing but its return value
CallPaginate ==
  /\ settled.status = "none"
  /\ UNCHANGED outsideExport
  /\ op' = "paginate"
  /\ callNo' = callNo + 1
  /\ settled' = Fulfilled(paginate(args.totalContentHeightPx,
                                   args.pageContentHeightPx, args.maxPages))
  /\ pc' = "done"
  /\ UNCHANGED <<env, args, docRoots, rootKids, pendingImgs,
                 pendingBroken, metrics, pagination,
                 pages, pageIndex, progress, confirms, zipEntries, zipIndex,
                 downloads, dom>>

SpecPaginate == InitPaginate /\ [][CallPaginate]_vars

\* ------------------------------------------------ getPageMetrics alone
\* the margin menu of the application: None, Compact, Default, Spacious
MarginPresets == {0, 12, 20, 28}
\* widths the 1mm probe can measure, in quarters of a pixel
ProbeQuarters == {k * (PxScale \div 4) : k \in 0..MaxProbeQuarters}

\* a page with some display density and some margin, a preset or a wider one
InitMetrics ==
  /\ Loaded
  /\ env \in {[probeWidthPx |-> w, marginMm |-> m, imgs |-> 0, brokenImgs |-> 0] :
                w \in ProbeQuarters \cup ProbeWidths, m \in MarginPresets \cup MarginsMm}
  /\ args = NoArgs
  /\ warn = FALSE
  /\ settings = defaultSettings

\* the call: getPageMetrics probes the density and reads the page variables
CallGetPageMetrics ==
  /\ settled.status = "none"
  /\ op' = "getPageMetrics"
  /\ callNo' = callNo + 1
  /\ metrics' = getPageMetrics(env.probeWidthPx, DefaultPageWidthMm,
                               DefaultPageHeightMm, env.marginMm)
  /\ settled' = Fulfilled(metrics')
  /\ pc' = "done"
  /\ UNCHANGED <<env, args, docRoots, rootKids, pendingImgs, pendingBroken,
                 pagination, pages, pageIndex, progress, confirms, zipEntries,
                 zipIndex, downloads, dom, outsideExport>>

SpecMetrics == InitMetrics /\ [][CallGetPageMetrics]_vars

\* ------------------------------------------------------- waitForImages
\* waitForImages up to its await: every img of the clone that is not complete
\* gets onload/onerror handlers; an image is complete when it has loaded or
\* failed already, so any number of the loadable and of the broken images may
\* be pending, and none is when the clone holds no image
waitForImagesBegins ==
  \E ok \in 0..(env.imgs - env.brokenImgs), broken \in 0..env.brokenImgs :
    /\ pendingImgs' = ok + broken
    /\ pendingBroken' = broken

waitForImagesDone_noAwait == pendingImgs >= 0

waitForImagesDone_skipsBroken == pendingImgs = pendingBroken

waitForImagesDone_never == pendingImgs < 0

\* await Promise.all(...): every promise of the map has resolved
waitForImagesDone == pendingImgs = 0

Waiting == {"r_waitMeasure", "r_waitTemplate", "p_waitMeasure", "p_waitContent"}

ImageFires_errorRejects(event) ==
  IF event = "error"
  THEN settled' = Rejected /\ pc' = "done"
  ELSE UNCHANGED <<settled, pc>>

\* img.onload = () => resolve(); img.onerror = () => resolve();
ImageFires(event) == UNCHANGED <<settled, pc>>

\* an image under the awaited clone fires load, or error when it is a broken
\* one: its promise resolves
ImageSettles ==
  \E event \in {"load", "error"} :
    /\ InFlight
    /\ pc \in Waiting
    /\ UNCHANGED outsideExport
    /\ IF event = "error"
       THEN /\ pendingBroken > 0
            /\ pendingBroken' = pendingBroken - 1
       ELSE /\ pendingImgs - pendingBroken > 0
            /\ pendingBroken' = pendingBroken
    /\ pendingImgs' = pendingImgs - 1
    /\ ImageFires(event)
    /\ UNCHANGED <<op, env, args, callNo, docRoots, rootKids, metrics,
                   pagination, pages, pageIndex, progress, confirms, zipEntries,
                   zipIndex, downloads, dom>>

\* --------------------------------------------------------- rasterizePages
Throws_thenDone ==
  /\ settled' = Rejected
  /\ pc' = "done"
  /\ progress' = Append(progress, [step |-> "done"])
  /\ UNCHANGED <<op, env, args, callNo, docRoots, rootKids, pendingImgs,
                 pendingBroken, metrics, pagination, pages, pageIndex, confirms,
                 zipEntries, zipIndex, downloads, dom>>

\* an awaited step throws: the async function has no try/catch/finally, so the
\* promise rejects with everything else left as it is
Throws ==
  /\ settled' = Rejected
  /\ pc' = "done"
  /\ UNCHANGED dom
  /\ UNCHANGED <<op, env, args, callNo, docRoots, rootKids, pendingImgs,
                 pendingBroken, metrics,
                 pagination, pages, pageIndex, progress, confirms, zipEntries,
                 zipIndex, downloads>>

\* rasterizePages up to its first await: getPageMetrics, createExportRoot,
\* the measurement clone appended, resolveAppImages(measureNode) started
rasterizePagesBegins(maxPages, scrollHeight) ==
  /\ callNo' = callNo + 1
  /\ args' = [maxPages |-> maxPages, scrollHeight |-> scrollHeight]
  /\ metrics' = getPageMetrics(env.probeWidthPx, DefaultPageWidthMm,
                               DefaultPageHeightMm, env.marginMm)
  /\ UNCHANGED env
  /\ docRoots' = docRoots \cup {callNo + 1}
  /\ rootKids' = {MeasureNode}
  /\ dom' = appendChild(cloneContent(dom, "previewContent",
                                     metrics'.contentWidthPx),
                        "exportRoot", ContentClone)
  /\ pendingImgs' = 0
  /\ pendingBroken' = 0
  /\ settled' = Pending
  /\ pc' = "r_resolveMeasure"
  /\ FreshLocals

CallRasterizePages ==
  \E maxPages \in MaxPagesOptions, scrollHeight \in ScrollHeights :
    /\ CanCall
    /\ UNCHANGED outsideExport
    /\ op' = "rasterizePages"
    /\ progress' = <<>>
    /\ rasterizePagesBegins(maxPages, scrollHeight)

\* exportPngZip up to its first await: the first notification, then the call of
\* rasterizePages
CallExportPngZip ==
  \E maxPages \in MaxPagesOptions, scrollHeight \in ScrollHeights :
    /\ CanCall
    /\ UNCHANGED outsideExport
    /\ op' = "exportPngZip"
    /\ progress' = <<[step |-> "rasterize"]>>
    /\ rasterizePagesBegins(maxPages, scrollHeight)

\* await resolveAppImages(measureNode) settles; then waitForImages(measureNode)
R_ResolveMeasure ==
  /\ InFlight /\ op \in RasterOps /\ pc = "r_resolveMeasure"
  /\ UNCHANGED outsideExport
  /\ \/ /\ waitForImagesBegins
        /\ dom' = attachImageHandlers(resolveAppImages(dom, ContentClone, env),
                                      ContentClone, pendingImgs')
        /\ pc' = "r_waitMeasure"
        /\ UNCHANGED <<op, env, args, callNo, settled, docRoots, rootKids, metrics,
                       pagination, pages, pageIndex, progress, confirms,
                       zipEntries, zipIndex, downloads>>
     \/ Throws

\* rasterizePages: paginate(totalContentHeightPx, contentHeightPx, maxPages)
rasterizePagination(a, m) == paginate(a.scrollHeight, m.contentHeightPx, a.maxPages)

\* await waitForImages(measureNode) completes: measure, discard the clone,
\* paginate, build the content template, resolveAppImages(contentTemplate)
R_WaitMeasure ==
  /\ InFlight /\ op \in RasterOps /\ pc = "r_waitMeasure"
  /\ UNCHANGED outsideExport
  /\ waitForImagesDone
  /\ rootKids' = RemoveMeasureNode(rootKids)
  /\ dom' = cloneContent(removeNode(dom, ContentClone), "previewContent",
                         metrics.contentWidthPx)
  /\ pagination' = rasterizePagination(args, metrics)
  /\ pages' = <<>>
  /\ pc' = "r_resolveTemplate"
  /\ UNCHANGED <<op, env, args, callNo, settled, docRoots, pendingImgs,
                 pendingBroken, metrics,
                 pageIndex, progress, confirms, zipEntries, zipIndex, downloads>>

\* await resolveAppImages(contentTemplate) settles; then
\* waitForImages(contentTemplate)
R_ResolveTemplate ==
  /\ InFlight /\ op \in RasterOps /\ pc = "r_resolveTemplate"
  /\ UNCHANGED outsideExport
  /\ \/ /\ waitForImagesBegins
        /\ dom' = attachImageHandlers(resolveAppImages(dom, ContentClone, env),
                                      ContentClone, pendingImgs')
        /\ pc' = "r_waitTemplate"
        /\ UNCHANGED <<op, env, args, callNo, settled, docRoots, rootKids, metrics,
                       pagination, pages, pageIndex, progress, confirms,
                       zipEntries, zipIndex, downloads>>
     \/ Throws

\* String(n).padStart(2, "0")
padStart2(str) == IF Len(str) < 2 THEN "0" \o str ELSE str

toFileName_zeroBased(index) == "page-" \o padStart2(ToString(index)) \o ".png"

toFileName(index) == "page-" \o padStart2(ToString(index + 1)) \o ".png"

ZipProgress_render(index, total) ==
  [step |-> "render", current |-> index + 1, total |-> total]

ZipProgress_zeroBased(index, total) ==
  [step |-> "zip", current |-> index, total |-> total]

\* onProgress?.({ step: "zip", current: index + 1, total })
ZipProgress(index, total) ==
  [step |-> "zip", current |-> index + 1, total |-> total]

\* the value rasterizePages returns, from its locals
RasterizeResult ==
  [pages |-> pages, pagination |-> pagination,
   pageWidthPx |-> metrics.pageWidthPx, pageHeightPx |-> metrics.pageHeightPx]

\* exportPngZip's for loop at its test with loop variable index (0-based) and
\* the archive holding entries: the next page's notification and
\* dataUrlToBlob, or the archive's generateAsync
ZipLoop(index, entries, result) ==
  /\ zipIndex' = index
  /\ zipEntries' = entries
  /\ IF index < Len(result.pages)
     THEN /\ progress' = Append(progress, ZipProgress(index, Len(result.pages)))
          /\ pc' = "z_blob"
     ELSE /\ progress' = Append(progress, [step |-> "generate"])
          /\ pc' = "z_generate"
  /\ UNCHANGED <<settled, downloads>>

\* rasterizePages returns result: to the caller, or into exportPngZip, which
\* goes on to its archive loop
rasterizePagesReturns(result) ==
  IF op = "rasterizePages"
  THEN /\ settled' = Fulfilled(result)
       /\ pc' = "done"
       /\ UNCHANGED <<progress, zipEntries, zipIndex, downloads>>
  ELSE ZipLoop(0, <<>>, result)

RemovePage_keeps(kids) == kids

\* page.remove(): the shell rendered last leaves the export root
RemovePage(kids) == {n \in kids : n.node # "page"}

NextOffset_reversed(k) ==
  pagination.offsets[Len(pagination.offsets) - k + 1]

\* for (const offset of pagination.offsets): the offset of iteration k (1-based)
NextOffset(k) == pagination.offsets[k]

\* rasterizePages' for-of loop about to take offsets[k] (1-based), with the
\* images newPages pushed so far: the page shell of that offset is built,
\* attached and handed to toPng; past the last offset the export root is
\* removed and the result returned
RasterLoop(k, newPages) ==
  /\ pages' = newPages
  /\ IF k <= Len(pagination.offsets)
     THEN /\ pageIndex' = k
          /\ rootKids' = RemovePage(rootKids)
                           \cup {PageShell(NextOffset(k))}
          /\ dom' = appendChild(setStyle(dom, cloneNode(ContentClone),
                                         [translateY |-> NextOffset(k)]),
                                "page", cloneNode(ContentClone))
          /\ pc' = "r_toPng"
          /\ UNCHANGED <<settled, docRoots, progress, zipEntries, zipIndex,
                         downloads>>
     ELSE /\ pageIndex' = pageIndex
          /\ UNCHANGED dom
          /\ rootKids' = RemovePage(rootKids)
          /\ docRoots' = docRoots \ {callNo}
          /\ rasterizePagesReturns([RasterizeResult EXCEPT !.pages = newPages])

\* await waitForImages(contentTemplate) completes: the loop starts
R_WaitTemplate ==
  /\ InFlight /\ op \in RasterOps /\ pc = "r_waitTemplate"
  /\ UNCHANGED outsideExport
  /\ waitForImagesDone
  /\ RasterLoop(1, pages)
  /\ UNCHANGED <<op, env, args, callNo, pendingImgs,
                 pendingBroken, metrics, pagination, confirms>>

\* the page shell the loop body attached last
CurrentPage == CHOOSE n \in rootKids : n.node = "page"

R_ToPngThrows_partial ==
  /\ settled' = Fulfilled(RasterizeResult)
  /\ pc' = "done"
  /\ UNCHANGED dom
  /\ UNCHANGED <<op, env, args, callNo, docRoots, rootKids, pendingImgs,
                 pendingBroken, metrics,
                 pagination, pages, pageIndex, progress, confirms, zipEntries,
                 zipIndex, downloads>>

\* toPng rejects: nothing in rasterizePages catches it
R_ToPngThrows == Throws

\* await toPng(page) settles: the image is pushed, the shell removed, and the
\* loop goes on
R_ToPng ==
  /\ InFlight /\ op \in RasterOps /\ pc = "r_toPng"
  /\ UNCHANGED outsideExport
  /\ \/ /\ RasterLoop(pageIndex + 1, Append(pages, toPng(CurrentPage)))
        /\ UNCHANGED <<op, env, args, callNo, pendingImgs,
                       pendingBroken, metrics, pagination,
                       confirms>>
     \/ R_ToPngThrows

\* ------------------------------------------------------------ exportPngZip
\* await dataUrlToBlob(result.pages[index]) settles: zip.file(name, blob)
Z_Blob ==
  /\ InFlight /\ op = "exportPngZip" /\ pc = "z_blob"
  /\ UNCHANGED outsideExport
  /\ \/ /\ ZipLoop(zipIndex + 1,
                   Append(zipEntries, [name |-> toFileName(zipIndex),
                                       blob |-> pages[zipIndex + 1]]),
                   RasterizeResult)
        /\ UNCHANGED <<op, env, args, callNo, docRoots, rootKids, pendingImgs,
                       pendingBroken,
                       metrics, pagination, pages, pageIndex, confirms, dom>>
     \/ Throws

\* await zip.generateAsync settles: downloadBlob, the last notification, return
Z_Generate ==
  /\ InFlight /\ op = "exportPngZip" /\ pc = "z_generate"
  /\ UNCHANGED outsideExport
  /\ \/ /\ downloads' = Append(downloads, [kind |-> "zip", files |-> zipEntries])
        /\ progress' = Append(progress, [step |-> "done"])
        /\ settled' = Fulfilled(RasterizeResult)
        /\ pc' = "done"
        /\ UNCHANGED <<op, env, args, callNo, docRoots, rootKids, pendingImgs,
                       pendingBroken,
                       metrics, pagination, pages, pageIndex, confirms,
                       zipEntries, zipIndex, dom>>
     \/ Throws

\* --------------------------------------------------------------- exportPdf
NeedsConfirm_always(pg) == pg.pageCount >= 1

NeedsConfirm_never(pg) == pg.pageCount < 0

\* if (pagination.pageCount > 1) window.confirm(...)
NeedsConfirm(pg) == pg.pageCount > 1

ExportNode_alwaysCapped(pg, m) ==
  [node |-> "exportNode", offset |-> 0,
   maxHeightPx |-> pg.pageCount * m.contentHeightPx + m.marginPx * 2,
   overflow |-> "hidden"]

ExportNode_capByPageHeight(pg, m) ==
  [node |-> "exportNode", offset |-> 0,
   maxHeightPx |-> IF pg.clamped
                   THEN pg.pageCount * m.pageHeightPx + m.marginPx * 2
                   ELSE -1,
   overflow |-> IF pg.clamped THEN "hidden" ELSE ""]

\* the clone of the page shell exportPdf renders, capped when clamped
ExportNode(pg, m) ==
  [node |-> "exportNode", offset |-> 0,
   maxHeightPx |-> IF pg.clamped
                   THEN pg.pageCount * m.contentHeightPx + m.marginPx * 2
                   ELSE -1,
   overflow |-> IF pg.clamped THEN "hidden" ELSE ""]

\* exportNode = pageShell.cloneNode(true), without marker and shadow, as
\* wide as the page; then content = cloneContent(previewContent, contentWidthPx)
exportNodeMade(d, m) ==
  cloneContent(setStyle(d, cloneNode("pageShell"),
                        [marker |-> FALSE, boxShadow |-> "none",
                         width |-> m.pageWidthPx]),
               "previewContent", m.contentWidthPx)

\* exportNode.innerHTML = "", the content appended, the cap when clamped, and
\* the node appended to the export root
exportNodeAttached(d, pg, m) ==
  LET node == cloneNode("pageShell")
      filled == appendChild(setStyle(d, node, [innerHTML |-> "content"]),
                            node, ContentClone)
      capped == IF pg.clamped
                THEN setStyle(filled, node,
                              [maxHeightPx |-> ExportNode(pg, m).maxHeightPx,
                               overflow |-> "hidden"])
                ELSE filled
  IN  appendChild(capped, "exportRoot", node)

\* exportPdf up to its first await
CallExportPdf ==
  \E maxPages \in MaxPagesOptions, scrollHeight \in ScrollHeights :
    /\ CanCall
    /\ UNCHANGED outsideExport
    /\ op' = "exportPdf"
    /\ callNo' = callNo + 1
    /\ args' = [maxPages |-> maxPages, scrollHeight |-> scrollHeight]
    /\ metrics' = getPageMetrics(env.probeWidthPx, DefaultPageWidthMm,
                                 DefaultPageHeightMm, env.marginMm)
    /\ UNCHANGED env
    /\ docRoots' = docRoots \cup {callNo + 1}
    /\ rootKids' = {MeasureNode}
    /\ dom' = appendChild(cloneContent(dom, "previewContent",
                                       metrics'.contentWidthPx),
                          "exportRoot", ContentClone)
    /\ pendingImgs' = 0
    /\ pendingBroken' = 0
    /\ settled' = Pending
    /\ progress' = <<>>
    /\ pc' = "p_resolveMeasure"
    /\ FreshLocals

\* await resolveAppImages(measureNode) settles; then waitForImages(measureNode)
P_ResolveMeasure ==
  /\ InFlight /\ op = "exportPdf" /\ pc = "p_resolveMeasure"
  /\ UNCHANGED outsideExport
  /\ \/ /\ waitForImagesBegins
        /\ dom' = attachImageHandlers(resolveAppImages(dom, ContentClone, env),
                                      ContentClone, pendingImgs')
        /\ pc' = "p_waitMeasure"
        /\ UNCHANGED <<op, env, args, callNo, settled, docRoots, rootKids, metrics,
                       pagination, pages, pageIndex, progress, confirms,
                       zipEntries, zipIndex, downloads>>
     \/ Throws

exportPdfPagination_pageHeight(a, m) ==
  paginate(a.scrollHeight, m.pageHeightPx, a.maxPages)

\* exportPdf: paginate(totalContentHeightPx, contentHeightPx, maxPages)
exportPdfPagination(a, m) == paginate(a.scrollHeight, m.contentHeightPx, a.maxPages)

Declined_keepsRoot(pg) ==
  /\ docRoots' = docRoots
  /\ settled' = Fulfilled([pagination |-> pg, cancelled |-> TRUE])
  /\ pc' = "done"

\* if (!shouldContinue) { exportRoot.remove(); return { pagination, cancelled: true } }
Declined(pg) ==
  /\ docRoots' = docRoots \ {callNo}
  /\ settled' = Fulfilled([pagination |-> pg, cancelled |-> TRUE])
  /\ pc' = "done"

\* await waitForImages(measureNode) completes: measure, discard the clone,
\* paginate, notify, confirm when more than one page, and either return
\* cancelled or build the content clone and start resolveAppImages(content)
P_WaitMeasure ==
  /\ InFlight /\ op = "exportPdf" /\ pc = "p_waitMeasure"
  /\ UNCHANGED outsideExport
  /\ waitForImagesDone
  /\ LET pg == exportPdfPagination(args, metrics)
     IN  /\ pagination' = pg
         /\ rootKids' = RemoveMeasureNode(rootKids)
         /\ progress' = Append(progress, [step |-> "measure",
                                          pageCount |-> pg.pageCount,
                                          clamped |-> pg.clamped])
         /\ \E shouldContinue \in BOOLEAN :
              /\ confirms' = IF NeedsConfirm(pg)
                             THEN Append(confirms, shouldContinue)
                             ELSE confirms
              /\ IF NeedsConfirm(pg) /\ ~shouldContinue
                 THEN /\ Declined(pg)
                      /\ dom' = removeNode(dom, ContentClone)
                 ELSE /\ pc' = "p_resolveContent"
                      /\ dom' = exportNodeMade(removeNode(dom, ContentClone),
                                               metrics)
                      /\ UNCHANGED <<docRoots, settled>>
  /\ UNCHANGED <<op, env, args, callNo, pendingImgs,
                 pendingBroken, metrics, pages, pageIndex,
                 zipEntries, zipIndex, downloads>>

\* await resolveAppImages(content) settles; then waitForImages(content)
P_ResolveContent ==
  /\ InFlight /\ op = "exportPdf" /\ pc = "p_resolveContent"
  /\ UNCHANGED outsideExport
  /\ \/ /\ waitForImagesBegins
        /\ dom' = attachImageHandlers(resolveAppImages(dom, ContentClone, env),
                                      ContentClone, pendingImgs')
        /\ pc' = "p_waitContent"
        /\ UNCHANGED <<op, env, args, callNo, settled, docRoots, rootKids, metrics,
                       pagination, pages, pageIndex, progress, confirms,
                       zipEntries, zipIndex, downloads>>
     \/ Throws

\* await waitForImages(content) completes: the export node gets the content
\* and, when clamped, the height cap; it is attached; notify; html2pdf starts
P_WaitContent ==
  /\ InFlight /\ op = "exportPdf" /\ pc = "p_waitContent"
  /\ UNCHANGED outsideExport
  /\ waitForImagesDone
  /\ rootKids' = rootKids \cup {ExportNode(pagination, metrics)}
  /\ dom' = exportNodeAttached(dom, pagination, metrics)
  /\ progress' = Append(progress, [step |-> "render",
                                   pageCount |-> pagination.pageCount])
  /\ pc' = "p_save"
  /\ UNCHANGED <<op, env, args, callNo, settled, docRoots, pendingImgs,
                 pendingBroken, metrics,
                 pagination, pages, pageIndex, confirms, zipEntries, zipIndex,
                 downloads>>

\* await html2pdf()...save() settles: the root is removed, notify, return
P_Save ==
  /\ InFlight /\ op = "exportPdf" /\ pc = "p_save"
  /\ UNCHANGED outsideExport
  /\ \/ /\ downloads' = Append(downloads,
                               [kind |-> "pdf",
                                files |-> <<ExportNode(pagination, metrics)>>])
        /\ docRoots' = docRoots \ {callNo}
        /\ progress' = Append(progress, [step |-> "done"])
        /\ settled' = Fulfilled([pagination |-> pagination, cancelled |-> FALSE])
        /\ pc' = "done"
        /\ UNCHANGED <<op, env, args, callNo, rootKids, pendingImgs, pendingBroken, metrics,
                       pagination, pages, pageIndex, confirms, zipEntries,
                       zipIndex, dom>>
     \/ Throws

\* ------------------------------------------------------------ specification
Next ==
  \/ CallRasterizePages
  \/ CallExportPngZip
  \/ CallExportPdf
  \/ ImageSettles
  \/ R_ResolveMeasure
  \/ R_WaitMeasure
  \/ R_ResolveTemplate
  \/ R_WaitTemplate
  \/ R_ToPng
  \/ Z_Blob
  \/ Z_Generate
  \/ P_ResolveMeasure
  \/ P_WaitMeasure
  \/ P_ResolveContent
  \/ P_WaitContent
  \/ P_Save

Spec == Init /\ [][Next]_vars

\* ------------------------------------------------- the PDF's page slicing
\* html2pdf (margin 0, format a4, portrait) renders the export node, which is
\* pageWidthPx wide, and cuts the rendering into pages of the physical page
\* height pageHeightPx.  The export node is the page shell's clone: its
\* content begins below a top padding of marginPx and ends above a bottom
\* padding of marginPx.

\* the rendered height of the export node over content of height total
PdfBlockHeight(node, total, m) ==
  LET natural == total + m.marginPx * 2
  IN  IF node.maxHeightPx >= 0 THEN MathMin(node.maxHeightPx, natural) ELSE natural

\* the number of pages a block of that height is cut into
PdfPageCount(height, m) ==
  MathMax(1, MathCeilOfQuotient(height, m.pageHeightPx))

\* the content offset at which page k (from 0) of the PDF begins
PdfPageStart(k, m) == IF k = 0 THEN 0 ELSE k * m.pageHeightPx - m.marginPx

\* ---------------------------------------------- the application's buttons
\* The click handlers of the four export controls.  An export call is one
\* pending promise here: a handler awaits it and goes on when it settles.
\* each handler: [button, at], at its await: "warning" (confirmWarning),
\* "export" (exportPngZip, rasterizePages or exportPdf), "blob" (the
\* first-page handler's dataUrlToBlob), or "done"

\* a page load of the application, the font cached or not
InitApp ==
  /\ Loaded
  /\ env = [probeWidthPx |-> 0, marginMm |-> DefaultMarginMm, imgs |-> 0,
            brokenImgs |-> 0]
  /\ args = NoArgs
  /\ warn \in BOOLEAN
  /\ settings = defaultSettings

\* the handlers that show the font warning first; rasterizePreview's does not
WarnsOnFont(button) == button # "rasterizePreview" /\ warn

\* the handlers awaiting an export call
ExportsInFlight == {i \in 1..Len(handlers) : handlers[i].at = "export"}

\* button.disabled = true; setExportStatus(...); try { await <export>(...)
BeginsExport(button) == disabled' = [disabled EXCEPT ![button] = TRUE]

Finally_missing(button) == disabled' = disabled

\* finally { button.disabled = false; }
Finally(button) == disabled' = [disabled EXCEPT ![button] = FALSE]

\* a click on an export control that is not disabled starts its handler, which
\* runs to its first await
ClickExport ==
  \E button \in Buttons :
    /\ ~disabled[button]
    /\ Len(handlers) < MaxClicks
    /\ IF WarnsOnFont(button)
       THEN /\ handlers' = Append(handlers, [button |-> button, at |-> "warning"])
            /\ UNCHANGED disabled
       ELSE /\ handlers' = Append(handlers, [button |-> button, at |-> "export"])
            /\ BeginsExport(button)
    /\ UNCHANGED <<warn, outsideApp>>

\* the font warning is closed by Continue or Cancel, "Do not show again"
\* checked or not: the handler returns, or starts its export
WarningClosed ==
  \E i \in 1..Len(handlers), proceed \in BOOLEAN, dontShowAgain \in BOOLEAN :
    /\ handlers[i].at = "warning"
    /\ warn' = IF dontShowAgain THEN FALSE ELSE warn
    /\ IF proceed
       THEN /\ handlers' = [handlers EXCEPT ![i].at = "export"]
            /\ BeginsExport(handlers[i].button)
       ELSE /\ handlers' = [handlers EXCEPT ![i].at = "done"]
            /\ UNCHANGED disabled
    /\ UNCHANGED outsideApp

\* the export a handler awaits fulfils or rejects: the first-page handler goes
\* on to dataUrlToBlob when it fulfilled, every other case ends in finally
ExportSettles ==
  \E i \in 1..Len(handlers), fulfilled \in BOOLEAN :
    /\ handlers[i].at = "export"
    /\ IF fulfilled /\ handlers[i].button = "exportFirstPage"
       THEN /\ handlers' = [handlers EXCEPT ![i].at = "blob"]
            /\ UNCHANGED disabled
       ELSE /\ handlers' = [handlers EXCEPT ![i].at = "done"]
            /\ Finally(handlers[i].button)
    /\ UNCHANGED <<warn, outsideApp>>

\* the first-page handler's dataUrlToBlob settles: download or status, finally
BlobSettles ==
  \E i \in 1..Len(handlers) :
    /\ handlers[i].at = "blob"
    /\ handlers' = [handlers EXCEPT ![i].at = "done"]
    /\ Finally(handlers[i].button)
    /\ UNCHANGED <<warn, outsideApp>>

NextApp ==
  \/ ClickExport
  \/ WarningClosed
  \/ ExportSettles
  \/ BlobSettles

SpecApp == InitApp /\ [][NextApp]_vars

\* ------------------------------------------------- the page-limit settings
\* The advanced page-limit toggle, the max-pages prompt, and the maxPages
\* option the export handlers pass on.  An export is its pagination here.

\* what the user types into the max-pages prompt
TypedNumbers == {0, Px(1), Px(1) + Half, Px(2), Px(MaxAppContentPages - 1),
                 Px(PromptMax), Px(PromptMax + 10)}

\* promptCustomNumber's Apply: Math.min(max, Math.max(min, parsed))
promptCustomNumber(parsed, min, max) == MathMin(max, MathMax(min, parsed))

getEffectiveMaxPages_ignoresToggle(st) == st.maxPages

\* settings.advancedPages ? settings.maxPages : 10
getEffectiveMaxPages(st) ==
  IF st.advancedPages THEN st.maxPages ELSE Px(DefaultMaxPages)

\* the maxPages option each export handler passes
MaxPagesOption(button, st) ==
  IF button = "exportFirstPage" THEN Px(1) ELSE getEffectiveMaxPages(st)

\* the application's page: default size and margin
AppMetrics == getPageMetrics(0, DefaultPageWidthMm, DefaultPageHeightMm,
                             DefaultMarginMm)
\* content of no, one, two and many pages
AppScrollHeights ==
  {k * AppMetrics.contentHeightPx : k \in {0, 1, 2, MaxAppContentPages}}

\* loadSettings: the defaults, or what an earlier session saved
StoredSettings ==
  {defaultSettings}
  \cup [advancedPages : BOOLEAN,
        maxPages : {MathMax(Px(1), promptCustomNumber(t, Px(PromptMin), Px(PromptMax))) :
                      t \in TypedNumbers}]

InitSettings ==
  /\ Loaded
  /\ env = [probeWidthPx |-> 0, marginMm |-> DefaultMarginMm, imgs |-> 0,
            brokenImgs |-> 0]
  /\ args = NoArgs
  /\ warn = FALSE
  /\ settings \in StoredSettings

\* advancedPagesToggle click
ToggleAdvancedPages ==
  /\ settings' = [settings EXCEPT !.advancedPages = ~settings.advancedPages]
  /\ UNCHANGED <<lastExport, outsideSettings>>

\* maxPagesButton click with the override on, a number typed and applied
ApplyMaxPages ==
  \E typed \in TypedNumbers :
    /\ settings.advancedPages
    /\ settings' = [settings EXCEPT !.maxPages =
                      MathMax(Px(1), promptCustomNumber(typed, Px(PromptMin),
                                                        Px(PromptMax)))]
    /\ UNCHANGED <<lastExport, outsideSettings>>

\* a click on an export control: the handler passes its maxPages option and
\* the export paginates the content it measures
StartExport ==
  \E button \in Buttons, scrollHeight \in AppScrollHeights :
    LET a == [maxPages |-> MaxPagesOption(button, settings),
              scrollHeight |-> scrollHeight]
    IN  /\ lastExport' =
             [button |-> button, settings |-> settings, maxPages |-> a.maxPages,
              pagination |-> IF button = "exportPdfButton"
                             THEN exportPdfPagination(a, AppMetrics)
                             ELSE rasterizePagination(a, AppMetrics)]
        /\ UNCHANGED <<settings, outsideSettings>>

NextSettings ==
  \/ ToggleAdvancedPages
  \/ ApplyMaxPages
  \/ StartExport

SpecSettings == InitSettings /\ [][NextSettings]_vars

\* ------------------------------------------------------------------ fonts
MAX_VARIANTS == 4
MAX_FONT_BYTES == 5 * 1024 * 1024

\* String.prototype.startsWith, endsWith, includes
startsWith(str, prefix) ==
  Len(str) >= Len(prefix) /\ SubSeq(str, 1, Len(prefix)) = prefix
endsWith(str, suffix) ==
  Len(str) >= Len(suffix)
    /\ SubSeq(str, Len(str) - Len(suffix) + 1, Len(str)) = suffix
includes(str, part) ==
  \E i \in 1..(Len(str) - Len(part) + 1) : SubSeq(str, i, i + Len(part) - 1) = part

\* new URL(input) of a lower-case input without port, user or dot segments:
\* it throws unless the input is absolute; the origin is the scheme and the
\* host, the pathname runs from the first "/" after the host to "?" or "#"
Schemes == {"https://", "http://"}
UrlParses(input) ==
  \E scheme \in Schemes : startsWith(input, scheme) /\ Len(input) > Len(scheme)
FirstOf(str, from, stops) ==
  LET hits == {i \in from..Len(str) : SubSeq(str, i, i) \in stops}
  IN  IF hits = {} THEN Len(str) + 1
      ELSE CHOOSE i \in hits : \A j \in hits : i <= j
HostEnd(input) ==
  FirstOf(input, Len(CHOOSE scheme \in Schemes : startsWith(input, scheme)) + 1,
          {"/", "?", "#"})
UrlOrigin(input) == SubSeq(input, 1, HostEnd(input) - 1)
UrlPathname(input) ==
  LET from == HostEnd(input)
      to == FirstOf(input, from, {"?", "#"})
  IN  IF to = from THEN "/" ELSE SubSeq(input, from, to - 1)

IsFontUrl_anyOrigin(input) ==
  /\ UrlParses(input)
  /\ endsWith(UrlPathname(input), ".woff2") \/ endsWith(UrlPathname(input), ".woff")

IsFontUrl_wholeUrl(input) ==
  /\ UrlParses(input)
  /\ UrlOrigin(input) = "https://fonts.gstatic.com"
  /\ endsWith(input, ".woff2") \/ endsWith(input, ".woff")

\* the filter of resolveFontVariants: try { new URL(variant.url) ... } catch
IsFontUrl(input) ==
  /\ UrlParses(input)
  /\ UrlOrigin(input) = "https://fonts.gstatic.com"
  /\ endsWith(UrlPathname(input), ".woff2") \/ endsWith(UrlPathname(input), ".woff")

\* selectVariants: the first match of each wanted face, else the first four
Wanted ==
  << [weight |-> 400, style |-> "normal"], [weight |-> 700, style |-> "normal"],
     [weight |-> 400, style |-> "italic"], [weight |-> 700, style |-> "italic"] >>
FirstMatch(variants, target) ==
  LET hits == {i \in 1..Len(variants) :
                 /\ variants[i].weight = target.weight
                 /\ variants[i].style = target.style}
  IN  IF hits = {} THEN <<>>
      ELSE <<variants[CHOOSE i \in hits : \A j \in hits : i <= j]>>
selectVariants(variants) ==
  LET chosen == FirstMatch(variants, Wanted[1]) \o FirstMatch(variants, Wanted[2])
                  \o FirstMatch(variants, Wanted[3]) \o FirstMatch(variants, Wanted[4])
      from == IF Len(chosen) = 0 THEN variants ELSE chosen
  IN  SubSeq(from, 1, MathMin(Len(from), MAX_VARIANTS))

\* resolveFontVariants on the reply of the resolve endpoint: it throws on a
\* status that is not ok and when the filter leaves nothing
resolveFontVariants(reply) ==
  LET sanitized == SelectSeq(reply.payload, LAMBDA variant : IsFontUrl(variant.url))
  IN  IF reply.status # 200 \/ Len(sanitized) = 0
      THEN [throws |-> TRUE, variants |-> <<>>]
      ELSE [throws |-> FALSE, variants |-> selectVariants(sanitized)]

\* a font file of another site
RedirectedUrl == "https://evil.example/x.woff2"
\* what the resolve endpoint can answer
Variant(url, weight, style) == [url |-> url, weight |-> weight, style |-> style]
VariantPool ==
  {Variant(GstaticWoff2, 400, "normal"), Variant(GstaticWoff, 700, "normal")}
  \cup {Variant(u, 400, "normal") : u \in OtherUrls}
\* payloads: empty, one variant, and any variant followed by the bold face or
\* by a file of another site
Payloads ==
  {<<>>} \cup {<<v>> : v \in VariantPool}
         \cup {<<v, w>> : v \in VariantPool,
                          w \in {Variant(GstaticWoff, 700, "normal"),
                                 Variant(RedirectedUrl, 400, "normal")}}
Replies ==
  {[status |-> 200, payload |-> p] : p \in Payloads}
  \cup {[status |-> st, payload |-> <<>>] : st \in {404, 504, 500}}

\* what a fetch of a font URL can answer: the file, or something else
Response(url, ok, contentType, bytes, magic) ==
  [url |-> url, ok |-> ok, contentType |-> contentType, bytes |-> bytes,
   magic |-> magic]
Responses(url) ==
  { Response(url, TRUE, "font/woff2", MAX_FONT_BYTES, "wOF2"),
    Response(RedirectedUrl, TRUE, "font/woff2", 1024, "wOF2"),
    Response(url, FALSE, "font/woff2", 1024, "wOF2"),
    Response(url, TRUE, "text/html", 1024, "wOF2"),
    Response(url, TRUE, "", 1024, "wOF2"),
    Response(url, TRUE, "application/x-font/woff", 1024, "wOFF"),
    Response(url, TRUE, "font/woff2", MAX_FONT_BYTES + 1, "wOF2"),
    Response(url, TRUE, "font/woff2", 1024, "OTTO") }

\* fetchWithTimeout rejects: the timeout, or no network
FetchThrows == [throws |-> TRUE]

validateFontBuffer_noMagic(buffer) == buffer.bytes <= MAX_FONT_BYTES

\* validateFontBuffer: true when it does not throw
validateFontBuffer(buffer) ==
  /\ ~(buffer.bytes > MAX_FONT_BYTES)
  /\ ~(buffer.magic # "wOF2" /\ buffer.magic # "wOFF")

validateFontResponse_bufferOnly(response) == validateFontBuffer(response)

\* validateFontResponse: true when it does not throw
validateFontResponse(response) ==
  /\ ~(UrlOrigin(response.url) # "https://fonts.gstatic.com")
  /\ response.ok
  /\ ~(~includes(response.contentType, "font/woff2")
         /\ ~includes(response.contentType, "font/woff"))
  /\ validateFontBuffer(response)

\* new FontFace(familyName, buffer, {weight, style}) added to document.fonts
Face(family, variant, via, binary) ==
  [family |-> family, variant |-> variant, via |-> via, binary |-> binary]

Job(kind, family, variants, index, import) ==
  [kind |-> kind, family |-> family, variants |-> variants, index |-> index,
   import |-> import]

CanStartFontOp == fontOps < MaxFontOps

\* handleImport after normalizeFontInput: resolve, store, then loadFontFamily
ImportFont ==
  \E family \in FontFamilies, reply \in Replies :
    /\ CanStartFontOp
    /\ fontOps' = fontOps + 1
    /\ LET resolved == resolveFontVariants(reply)
       IN  IF resolved.throws
           THEN UNCHANGED <<variantStore, fontJobs>>
           ELSE /\ variantStore' = [variantStore EXCEPT ![family] = resolved.variants]
                /\ fontJobs' = fontJobs \cup
                     {Job("network", family, resolved.variants, 1, TRUE)}
    /\ UNCHANGED <<fontFamily, fontCache, documentFonts, requested, outsideFonts>>

\* ensureFontLoaded(familyName) up to its first load: the stored variants go
\* to loadFontFamilyFromCache; without them the family is resolved and stored
ensureFontLoaded(family, jobs) ==
  IF family = SystemFont
  THEN fontJobs' = jobs /\ UNCHANGED variantStore
  ELSE LET stored == variantStore[family]
       IN  IF stored # NotStored
           THEN /\ fontJobs' = jobs \cup {Job("cache", family, stored, 1, FALSE)}
                /\ UNCHANGED variantStore
           ELSE \E reply \in Replies :
                  LET resolved == resolveFontVariants(reply)
                  IN  IF resolved.throws
                      THEN fontJobs' = jobs /\ UNCHANGED variantStore
                      ELSE /\ variantStore' =
                                [variantStore EXCEPT ![family] = resolved.variants]
                           /\ fontJobs' = jobs \cup
                                {Job("network", family, resolved.variants, 1, FALSE)}

\* fontSelect change: updateSettings({fontFamily}), ensureFontLoaded
SelectFont ==
  \E family \in FontFamilies \cup {SystemFont} :
    /\ CanStartFontOp
    /\ fontOps' = fontOps + 1
    /\ fontFamily' = family
    /\ ensureFontLoaded(family, fontJobs)
    /\ UNCHANGED <<fontCache, documentFonts, requested, outsideFonts>>

\* the page is loaded again: document.fonts and the loads in flight are gone,
\* localStorage and Cache Storage stay; ensureFontLoaded(settings.fontFamily)
Reload ==
  /\ CanStartFontOp
  /\ fontOps > 0
  /\ fontOps' = fontOps + 1
  /\ documentFonts' = {}
  /\ ensureFontLoaded(fontFamily, {})
  /\ UNCHANGED <<fontFamily, fontCache, requested, outsideFonts>>

\* the job after its variant: the next variant, or the end of the loop
Advance(job) ==
  IF job.index < Len(job.variants)
  THEN {[job EXCEPT !.index = job.index + 1]}
  ELSE {}

\* loadFontFamilyFromCache takes one variant: a miss, a failed validation or a
\* failed face.load() throws, and ensureFontLoaded falls through to the
\* network with the stored variants, which it stores again
CacheStep ==
  \E job \in fontJobs, loads \in BOOLEAN :
    /\ job.kind = "cache"
    /\ LET variant == job.variants[job.index]
           cached == fontCache[variant.url]
       IN  IF cached # NotCached /\ validateFontBuffer(cached) /\ loads
           THEN /\ documentFonts' = documentFonts \cup
                     {Face(job.family, variant, "cache", cached)}
                /\ fontJobs' = (fontJobs \ {job}) \cup Advance(job)
                /\ UNCHANGED variantStore
           ELSE /\ variantStore' = [variantStore EXCEPT ![job.family] = job.variants]
                /\ fontJobs' = (fontJobs \ {job}) \cup
                     {Job("network", job.family, job.variants, 1, FALSE)}
                /\ UNCHANGED documentFonts
    /\ UNCHANGED <<fontFamily, fontCache, requested, fontOps, outsideFonts>>

\* loadFontFamily takes one variant: fetch, validateFontResponse, face.load(),
\* document.fonts.add, cacheFont; a throw ends the load. handleImport then
\* makes the family the selected one
NetworkStep ==
  \E job \in fontJobs, loads \in BOOLEAN :
    /\ job.kind = "network"
    /\ LET variant == job.variants[job.index]
       IN  /\ requested' = requested \cup {variant.url}
           /\ \E response \in Responses(variant.url) \cup {FetchThrows} :
                IF response # FetchThrows /\ validateFontResponse(response) /\ loads
                THEN /\ documentFonts' = documentFonts \cup
                          {Face(job.family, variant, "network", response)}
                     /\ fontCache' = [fontCache EXCEPT ![variant.url] = response]
                     /\ fontJobs' = (fontJobs \ {job}) \cup Advance(job)
                     /\ fontFamily' = IF job.import /\ Advance(job) = {}
                                      THEN job.family ELSE fontFamily
                ELSE /\ fontJobs' = fontJobs \ {job}
                     /\ UNCHANGED <<documentFonts, fontCache, fontFamily>>
    /\ UNCHANGED <<variantStore, fontOps, outsideFonts>>

NextFonts ==
  \/ ImportFont
  \/ SelectFont
  \/ Reload
  \/ CacheStep
  \/ NetworkStep

InitFonts ==
  /\ Loaded
  /\ env = [probeWidthPx |-> 0, marginMm |-> DefaultMarginMm, imgs |-> 0,
            brokenImgs |-> 0]
  /\ args = NoArgs
  /\ warn = FALSE
  /\ settings = defaultSettings

SpecFonts == InitFonts /\ [][NextFonts]_vars


\* ------------------------------------------------------------------ claims
Ended == op \in ExportOps /\ ~InFlight
HasPage == \E n \in rootKids : n.node = "page"
Returned == settled.status = "fulfilled"

\* C1: once a call of rasterizePages, exportPngZip or exportPdf has ended,
\* however it ended, the export root it created is no longer attached to the
\* document.
C1_StagingRootRemovedAtEnd == Ended => callNo \notin docRoots

\* C2: when toPng throws for some page, the call rejects and the caller holds
\* no value: the images of the earlier pages are not handed out.
C2_NoPartialResult ==
  (op \in RasterOps /\ ~InFlight /\ HasPage)
    => (settled.status = "rejected" /\ settled.value = NoValue)

C2_Witness ==
  /\ op = "rasterizePages" /\ ~InFlight /\ HasPage
  /\ settled.status = "rejected"
  /\ Len(pages) >= 1

\* C3: every result rasterizePages returns, also through exportPngZip, has as
\* many page images as pagination.pageCount and as pagination.offsets.
C3_PagesMatchPageCount ==
  (op \in RasterOps /\ Returned)
    => /\ Len(settled.value.pages) = settled.value.pagination.pageCount
       /\ Len(settled.value.pagination.offsets) = settled.value.pagination.pageCount

C3_Witness ==
  /\ op = "exportPngZip" /\ Returned
  /\ settled.value.pagination.clamped
  /\ Len(settled.value.pages) = 2

\* C4: pages are rasterized one at a time in strictly increasing offset order:
\* while page k is with toPng exactly the images of pages 1..k-1 are in the
\* output, image i is the one rendered with translation -offsets[i], and the
\* result holds one image per offset.
C4_PagesInOffsetOrder ==
  op \in RasterOps =>
    /\ \A i \in 1..Len(pages) :
         i <= Len(pagination.offsets) /\ pages[i].translateY = -pagination.offsets[i]
    /\ \A i, j \in 1..Len(pagination.offsets) :
         i < j => pagination.offsets[i] < pagination.offsets[j]
    /\ (InFlight /\ pc = "r_toPng")
         => /\ Len(pages) = pageIndex - 1
            /\ {n \in rootKids : n.node = "page"}
                 = {PageShell(pagination.offsets[pageIndex])}
    /\ Returned
         => /\ Len(settled.value.pages) = Len(pagination.offsets)
            /\ \A i \in 1..Len(pagination.offsets) :
                 settled.value.pages[i].translateY = -pagination.offsets[i]

C4_Witness ==
  /\ op = "rasterizePages" /\ Returned
  /\ Len(settled.value.pages) >= 3

\* what a direct call of paginate was given and returned
PgTotal == args.totalContentHeightPx
PgHeight == args.pageContentHeightPx
PgMax == args.maxPages
PgResult == settled.value
PgReturned == op = "paginate" /\ Returned

Abs(x) == IF x < 0 THEN -x ELSE x
\* n = ceil(t / h) for h > 0, said without division
IsCeil(n, t, h) == n * h >= t /\ (n - 1) * h < t
\* k = floor(m) for the fixed-point m
IsFloor(k, m) == Px(k) <= m /\ m < Px(k + 1)

\* C5 as stated, on the inputs the data model calls valid (total >= 0, page
\* height >= 1, maxPages a whole number >= 1): if ceil(total/pageHeight) >
\* maxPages then pageCount = maxPages and clamped, otherwise pageCount =
\* ceil(total/pageHeight) and not clamped.
C5_Original ==
  (PgReturned /\ PgTotal >= 0 /\ PgHeight >= Px(1) /\ PgMax >= Px(1)
     /\ PgMax = Px(MathFloor(PgMax)))
    => LET c == CHOOSE n \in 0..(PgTotal \div PgHeight + 1) :
                  IsCeil(n, PgTotal, PgHeight)
       IN  IF Px(c) > PgMax
           THEN Px(PgResult.pageCount) = PgMax /\ PgResult.clamped
           ELSE PgResult.pageCount = c /\ ~PgResult.clamped

\* C5 (amended): for all inputs, with rawCount = max(1, ceil(total / max(1,
\* pageHeight))) and safeMax = max(1, floor(maxPages)): if rawCount > safeMax
\* then pageCount = safeMax and clamped, otherwise pageCount = rawCount and not
\* clamped; 2150/1000/10 gives 3 pages at 0, 1000, 2000, not clamped, and
\* 2150/1000/2 gives 2 pages at 0, 1000, clamped.
C5_ClampCorrect ==
  PgReturned =>
    LET h == IF PgHeight > Px(1) THEN PgHeight ELSE Px(1)
        raw == CHOOSE n \in 1..(Abs(PgTotal) \div PxScale + 2) :
                 \/ n = 1 /\ PgTotal <= h
                 \/ n > 1 /\ IsCeil(n, PgTotal, h)
        safeMax == CHOOSE k \in 1..(Abs(PgMax) \div PxScale + 1) :
                     \/ k = 1 /\ PgMax < Px(2)
                     \/ k > 1 /\ IsFloor(k, PgMax)
    IN  /\ IF raw > safeMax
           THEN PgResult.pageCount = safeMax /\ PgResult.clamped
           ELSE PgResult.pageCount = raw /\ ~PgResult.clamped
        /\ (PgTotal = Px(2150) /\ PgHeight = Px(1000) /\ PgMax = Px(10))
             => /\ PgResult.pageCount = 3
                /\ PgResult.offsets = <<0, Px(1000), Px(2000)>>
                /\ ~PgResult.clamped
        /\ (PgTotal = Px(2150) /\ PgHeight = Px(1000) /\ PgMax = Px(2))
             => /\ PgResult.pageCount = 2
                /\ PgResult.offsets = <<0, Px(1000)>>
                /\ PgResult.clamped

C5_Witness ==
  /\ PgReturned
  /\ PgTotal = Px(2150) /\ PgHeight = Px(1000) /\ PgMax = Px(2)
  /\ PgResult.clamped

C7_DegenerateHeightIsOne ==
  (PgReturned /\ PgHeight <= 0)
    => /\ PgResult = paginate(PgTotal, Px(1), PgMax)
       /\ PgResult.pageContentHeightPx = Px(1)
       /\ \A i \in 1..Len(PgResult.offsets) : PgResult.offsets[i] >= 0

C7_Witness ==
  /\ PgReturned
  /\ PgHeight < 0
  /\ PgResult.pageCount >= 2

\* C8: paginate never returns fewer than one page; content of height 0 gets
\* one page at offset 0, and rasterizePages returns exactly one image for it.
C8_AtLeastOnePage ==
  (op \in ExportOps /\ pagination # NoPagination)
    => /\ pagination.pageCount >= 1
       /\ args.scrollHeight = 0
            => /\ pagination.pageCount = 1
               /\ pagination.offsets = <<0>>
               /\ (op \in RasterOps /\ Returned) => Len(settled.value.pages) = 1

C8_Witness ==
  /\ op = "rasterizePages" /\ Returned
  /\ args.scrollHeight = 0
  /\ Len(settled.value.pages) = 1

\* C10: when the measured content is at most one page's content height,
\* exportPdf never calls window.confirm and returns cancelled = false.
C10_OnePageNoConfirm ==
  (op = "exportPdf" /\ args.scrollHeight <= metrics.contentHeightPx)
    => /\ confirms = <<>>
       /\ Returned => ~settled.value.cancelled

C10_Witness ==
  /\ op = "exportPdf" /\ Returned
  /\ args.scrollHeight = metrics.contentHeightPx
  /\ args.scrollHeight > 0
  /\ ~settled.value.cancelled

\* C11: when exportPdf finds more than one page and the user declines the
\* confirmation, the call returns {pagination, cancelled: true} at once:
\* html2pdf is never started and no file is downloaded, no "render" or "done"
\* notification is emitted, and the call's export root is attached no more.
C11_DeclineCancels ==
  (op = "exportPdf" /\ confirms # <<>> /\ ~confirms[Len(confirms)])
    => /\ pagination.pageCount > 1
       /\ Returned
       /\ settled.value = [pagination |-> pagination, cancelled |-> TRUE]
       /\ pc = "done"
       /\ downloads = <<>>
       /\ \A i \in 1..Len(progress) : progress[i].step \notin {"render", "done"}
       /\ callNo \notin docRoots
       /\ rootKids = {}

C11_Witness ==
  /\ op = "exportPdf" /\ Returned
  /\ confirms = <<FALSE>>
  /\ settled.value.cancelled
  /\ settled.value.pagination.pageCount = 2

\* the step names notified so far, in order
Steps == [i \in 1..Len(progress) |-> progress[i].step]

\* C12: a run of exportPdf goes measuring, then (only with more than one page)
\* the confirmation, then rendering, then done: the notifications are a prefix
\* of measure, render, done that matches the await the call is at; a call
\* returns cancelled only after a declined confirmation of more than one page,
\* and then nothing was rendered; it renders more than one page only after an
\* accepted confirmation.
C12_PhaseOrder ==
  op = "exportPdf" =>
    /\ Steps \in {<<>>, <<"measure">>, <<"measure", "render">>,
                  <<"measure", "render", "done">>}
    /\ (InFlight /\ pc \in {"p_resolveMeasure", "p_waitMeasure"})
         => Steps = <<>> /\ confirms = <<>> /\ pagination = NoPagination
    /\ (InFlight /\ pc \in {"p_resolveContent", "p_waitContent"})
         => Steps = <<"measure">>
    /\ (InFlight /\ pc = "p_save") => Steps = <<"measure", "render">>
    /\ confirms # <<>> => Len(confirms) = 1 /\ pagination.pageCount > 1
    /\ (pagination.pageCount > 1 /\ Steps # <<>>) => Len(confirms) = 1
    /\ (pagination.pageCount > 1 /\ Len(Steps) > 1) => confirms = <<TRUE>>
    /\ Returned =>
         IF settled.value.cancelled
         THEN /\ pagination.pageCount > 1
              /\ confirms = <<FALSE>>
              /\ Steps = <<"measure">>
              /\ downloads = <<>>
         ELSE /\ Steps = <<"measure", "render", "done">>
              /\ Len(downloads) = 1

C12_Witness ==
  /\ op = "exportPdf" /\ Returned
  /\ ~settled.value.cancelled
  /\ confirms = <<TRUE>>
  /\ Steps = <<"measure", "render", "done">>

\* C13: whenever the measured content is higher than one page's content
\* height, exportPdf asks for confirmation before it goes on to export, for
\* every maxPages >= 1 (on a page whose content height is at least 1 px).
C13_ConfirmWhenContentExceedsPage ==
  (/\ op = "exportPdf"
   /\ pagination # NoPagination
   /\ args.maxPages >= Px(1)
   /\ metrics.contentHeightPx >= Px(1)
   /\ args.scrollHeight > metrics.contentHeightPx)
    => confirms # <<>>

\* the archive the call handed to the download
ZipFiles == downloads[1].files
\* n written with at least two digits
TwoDigits(n) == IF n < 10 THEN "0" \o ToString(n) ELSE ToString(n)

\* C14: for a rasterization of N pages exportPngZip puts exactly N entries
\* into the archive, in page order: entry i holds the image of page i and is
\* named page-, i in two digits, .png; the names are pairwise distinct, and
\* three pages give page-01.png, page-02.png, page-03.png.
C14_ZipEntryNames ==
  (op = "exportPngZip" /\ Returned) =>
    /\ Len(downloads) = 1
    /\ Len(ZipFiles) = Len(settled.value.pages)
    /\ Len(ZipFiles) = pagination.pageCount
    /\ \A i \in 1..Len(ZipFiles) :
         /\ ZipFiles[i].name = "page-" \o TwoDigits(i) \o ".png"
         /\ ZipFiles[i].blob = settled.value.pages[i]
    /\ \A i, j \in 1..Len(ZipFiles) :
         i # j => ZipFiles[i].name # ZipFiles[j].name
    /\ Len(ZipFiles) = 3
         => <<ZipFiles[1].name, ZipFiles[2].name, ZipFiles[3].name>>
              = <<"page-01.png", "page-02.png", "page-03.png">>

C14_Witness ==
  /\ op = "exportPngZip" /\ Returned
  /\ Len(downloads) = 1
  /\ Len(ZipFiles) = 3
  /\ ZipFiles[3].name = "page-03.png"

C16_Original ==
  op \in {"exportPngZip", "exportPdf"} =>
    \A i \in 1..Len(progress) :
      progress[i].step \in {"measure", "render", "zip", "generate", "done"}

\* C16 (amended): every step name notified by exportPngZip is one of
\* rasterize, zip, generate, done, and every step name notified by exportPdf
\* is one of measure, render, done; rasterizePages called directly notifies
\* nothing.
C16_StepNames ==
  /\ op = "exportPngZip" =>
       \A i \in 1..Len(progress) :
         progress[i].step \in {"rasterize", "zip", "generate", "done"}
  /\ op = "exportPdf" =>
       \A i \in 1..Len(progress) :
         progress[i].step \in {"measure", "render", "done"}
  /\ op = "rasterizePages" => progress = <<>>

C16_Witness ==
  /\ op = "exportPngZip" /\ Returned
  /\ {progress[i].step : i \in 1..Len(progress)}
       = {"rasterize", "zip", "generate", "done"}

\* the awaits on waitForImages of the measurement clone
MeasureGate == {"r_waitMeasure", "p_waitMeasure"}
\* the continuation of some await on waitForImages can run
GateOpens ==
  ENABLED (R_WaitMeasure \/ R_WaitTemplate \/ P_WaitMeasure \/ P_WaitContent)

C18_BrokenImageTolerated ==
  /\ []((op \in RasterOps /\ env.brokenImgs >= 1 /\ Returned)
          => /\ Len(settled.value.pages) = settled.value.pagination.pageCount
             /\ Len(settled.value.pages) >= 1)
  /\ []((op \in RasterOps /\ env.brokenImgs >= 1 /\ InFlight /\ pc \in Waiting
           /\ pendingImgs = 0) => GateOpens)
  /\ [][(op \in RasterOps /\ pc \in Waiting /\ pendingBroken' < pendingBroken)
          => (settled' = settled /\ pc' = pc
              /\ pendingImgs' = pendingImgs - 1)]_vars

C18_Witness ==
  /\ op = "rasterizePages" /\ Returned
  /\ env.brokenImgs >= 1
  /\ Len(settled.value.pages) >= 2
  /\ Len(settled.value.pages) = settled.value.pagination.pageCount

\* C19: nothing bounds the wait for images: while an image of the measurement
\* clone has neither loaded nor fired error, the export does not measure, does
\* not return and does not fail; the only thing that can happen is an image
\* event.
C19_NoTimeoutOnImages ==
  [][(InFlight /\ pc \in MeasureGate /\ pendingImgs > 0)
       => /\ pc' = pc
          /\ settled' = settled
          /\ pagination' = NoPagination
          /\ progress' = progress
          /\ pendingImgs' = pendingImgs - 1]_vars

C19_Witness ==
  /\ op = "rasterizePages" /\ InFlight
  /\ pc = "r_waitMeasure"
  /\ pendingImgs > 0
  /\ pagination = NoPagination

\* C20: in the application, whatever the clicks on the export controls and
\* the answers to the dialogs, at most one export call is in flight at any
\* time.
C20_OneExportAtATime == Cardinality(ExportsInFlight) <= 1

\* C21: the PNG and the PDF export paginate alike: the Pagination a call of
\* exportPdf computed is the one rasterizePages computes from the same content
\* height, page metrics and maxPages, and the other way round, field by field.
C21_SamePaginationRules ==
  pagination # NoPagination =>
    LET other == IF op = "exportPdf"
                 THEN rasterizePagination(args, metrics)
                 ELSE exportPdfPagination(args, metrics)
    IN  /\ pagination.pageCount = other.pageCount
        /\ pagination.pageContentHeightPx = other.pageContentHeightPx
        /\ pagination.totalContentHeightPx = other.totalContentHeightPx
        /\ pagination.offsets = other.offsets
        /\ pagination.clamped = other.clamped
        /\ pagination.totalContentHeightPx = args.scrollHeight

C21_Witness ==
  /\ op = "exportPdf" /\ Returned
  /\ ~settled.value.cancelled
  /\ settled.value.pagination.pageCount = 3
  /\ settled.value.pagination = rasterizePagination(args, metrics)

\* the PDF a call of exportPdf saved: its export node and its page count
SavedNode == downloads[1].files[1]
SavedPdf ==
  op = "exportPdf" /\ Returned /\ ~settled.value.cancelled /\ Len(downloads) = 1
SavedPdfPages ==
  PdfPageCount(PdfBlockHeight(SavedNode, args.scrollHeight, metrics), metrics)

\* C22: the PDF's page breaks align with the PNG pages (on a page with room
\* for content): the PDF exported has pagination.pageCount pages, and its k-th
\* page begins at content offset offsets[k] = k * contentHeightPx.
C22_PdfBreaksAlignWithPng ==
  (SavedPdf /\ metrics.contentHeightPx > 0) =>
    /\ SavedPdfPages = pagination.pageCount
    /\ \A k \in 0..(pagination.pageCount - 1) :
         /\ PdfPageStart(k, metrics) = pagination.offsets[k + 1]
         /\ pagination.offsets[k + 1] = k * metrics.contentHeightPx

\* C23: an export started from the application with the advanced page-limit
\* override off has 1 <= pageCount <= 10 whatever settings.maxPages holds,
\* with the override on 1 <= pageCount <= settings.maxPages, and the
\* first-page export paginates to exactly one page.
C23_DefaultMaxTenPages ==
  lastExport.button # "none" =>
    LET count == lastExport.pagination.pageCount
        st == lastExport.settings
    IN  /\ count >= 1
        /\ lastExport.button = "exportFirstPage" => count = 1
        /\ (lastExport.button # "exportFirstPage" /\ ~st.advancedPages)
             => count <= 10
        /\ (lastExport.button # "exportFirstPage" /\ st.advancedPages)
             => Px(count) <= st.maxPages

C23_Witness ==
  /\ lastExport.button = "exportPng"
  /\ ~lastExport.settings.advancedPages
  /\ lastExport.settings.maxPages = Px(PromptMax)
  /\ lastExport.pagination.pageCount = 10
  /\ lastExport.pagination.clamped

\* C24: on the default A4 page with a margin preset of 0, 12, 20 or 28 mm and
\* any density the probe measures (3.78 px/mm when it measures 0),
\* getPageMetrics returns a positive density, contentWidthPx = pageWidthPx -
\* 2 * marginPx > 0 and contentHeightPx = pageHeightPx - 2 * marginPx > 0.
C24_ContentBoxPositive ==
  (op = "getPageMetrics" /\ Returned /\ env.marginMm \in {0, 12, 20, 28}) =>
    LET m == settled.value
    IN  /\ m.pxPerMm > 0
        /\ env.probeWidthPx = 0 => m.pxPerMm = 378
        /\ env.probeWidthPx > 0 => m.pxPerMm = env.probeWidthPx
        /\ m.pageWidthPx = 210 * m.pxPerMm
        /\ m.pageHeightPx = 297 * m.pxPerMm
        /\ m.marginPx = env.marginMm * m.pxPerMm
        /\ m.contentWidthPx = m.pageWidthPx - 2 * m.marginPx
        /\ m.contentHeightPx = m.pageHeightPx - 2 * m.marginPx
        /\ m.contentWidthPx > 0
        /\ m.contentHeightPx > 0

C24_Witness ==
  /\ op = "getPageMetrics" /\ Returned
  /\ env.probeWidthPx = 0
  /\ env.marginMm = 28
  /\ settled.value.contentWidthPx = (210 - 56) * 378

\* the export node exportPdf attached to its export root
RenderedNodes == {n \in rootKids : n.node = "exportNode"}

\* C25: in exportPdf, when pagination.clamped is true the block rendered has
\* its height capped at exactly pageCount * contentHeightPx + 2 * marginPx
\* with overflow hidden; when clamped is false it has no cap and no clipping.
\* The block saved is the block rendered.
C25_ClampedHeightCap ==
  op = "exportPdf" =>
    /\ \A n \in RenderedNodes :
         IF pagination.clamped
         THEN /\ n.maxHeightPx
                   = pagination.pageCount * metrics.contentHeightPx
                       + 2 * metrics.marginPx
              /\ n.overflow = "hidden"
         ELSE /\ n.maxHeightPx = -1
              /\ n.overflow = ""
    /\ (InFlight /\ pc = "p_save") => Cardinality(RenderedNodes) = 1
    /\ SavedPdf => SavedNode \in RenderedNodes

C25_Witness ==
  /\ SavedPdf
  /\ pagination.clamped
  /\ pagination.pageCount = 2
  /\ SavedNode.maxHeightPx = 2 * metrics.contentHeightPx + 2 * metrics.marginPx
  /\ metrics.marginPx > 0

\* C29: the cap enforces the page-count ceiling: on a page with
\* contentHeightPx > 0 a clamped export's block, of height pageCount *
\* contentHeightPx + 2 * marginPx, is cut by physical page height into at most
\* pageCount pages, hence at most maxPages pages when maxPages >= 1.
C29_CapKeepsPageCeiling ==
  (/\ op = "exportPdf"
   /\ pagination.clamped
   /\ metrics.contentHeightPx > 0) =>
    \A n \in RenderedNodes :
      LET cut == PdfPageCount(PdfBlockHeight(n, args.scrollHeight, metrics), metrics)
      IN  /\ cut >= 1
          /\ cut <= pagination.pageCount
          /\ args.maxPages >= Px(1) => Px(cut) <= args.maxPages

C29_Witness ==
  /\ op = "exportPdf" /\ InFlight /\ pc = "p_save"
  /\ pagination.clamped
  /\ pagination.pageCount = 2
  /\ metrics.marginPx > 0
  /\ \E n \in RenderedNodes :
       PdfPageCount(PdfBlockHeight(n, args.scrollHeight, metrics), metrics) = 2

\* C30: in rasterizePages the measurement clone is removed from the export
\* root before the content template and the page shells are made: the root
\* never holds the measurement clone together with a page shell, and past the
\* measurement it does not hold the measurement clone at all.
C30_MeasureCloneGoneBeforePages ==
  op \in RasterOps =>
    /\ ~(MeasureNode \in rootKids /\ HasPage)
    /\ MeasureNode \in rootKids => pagination = NoPagination
    /\ (InFlight /\ pc \in {"r_resolveTemplate", "r_waitTemplate", "r_toPng",
                            "z_blob", "z_generate"})
         => MeasureNode \notin rootKids
    /\ (InFlight /\ pc \in {"r_resolveMeasure", "r_waitMeasure"})
         => rootKids = {MeasureNode}

C30_Witness ==
  /\ op = "rasterizePages" /\ InFlight /\ pc = "r_toPng"
  /\ HasPage
  /\ pageIndex = 2
  /\ MeasureNode \notin rootKids

\* C26: no export modifies the preview content element or the live page
\* shell: whatever the call does to widths, paddings, image sources and
\* handlers, translation and height caps, it does to clones, so the document's
\* preview is as it was at every moment of a call and after it, however the
\* call ended
C26_PreviewUntouched == dom = PreviewDom

C26_Witness ==
  /\ op = "exportPdf" /\ SavedPdf
  /\ pagination.clamped
  /\ env.imgs > 0
  /\ callNo = 2
  /\ dom = PreviewDom

\* the URLs of the pool that are font files of fonts.gstatic.com
GstaticFontUrls == {GstaticWoff2, GstaticWoff}

\* C27: font binaries are fetched only from https://fonts.gstatic.com and
\* only as woff2/woff: after any sequence of imports, selections and reloads
\* every variant in the variant store, every variant a load in flight holds
\* and every URL loadFontFamily requested is such a URL.
C27_OnlyGstaticWoff ==
  /\ \A family \in FontFamilies :
       \A i \in 1..Len(variantStore[family]) :
         variantStore[family][i].url \in GstaticFontUrls
  /\ \A job \in fontJobs :
       \A i \in 1..Len(job.variants) : job.variants[i].url \in GstaticFontUrls
  /\ requested \subseteq GstaticFontUrls

C27_Witness ==
  /\ fontOps = MaxFontOps
  /\ Len(variantStore["Inter"]) = 2
  /\ {GstaticWoff2, GstaticWoff} \subseteq requested
  /\ \E face \in documentFonts : face.via = "cache"

\* what passed the checks as the code makes them: the content type holds
\* "font/woff" somewhere
PassedBufferChecks(binary) ==
  binary.bytes <= 5 * 1024 * 1024 /\ binary.magic \in {"wOF2", "wOFF"}
PassedResponseChecks(response) ==
  /\ PassedBufferChecks(response)
  /\ response.url \in GstaticFontUrls
  /\ response.ok
  /\ includes(response.contentType, "font/woff")
RegisteredPassedChecks ==
  /\ \A face \in documentFonts :
       IF face.via = "network" THEN PassedResponseChecks(face.binary)
       ELSE PassedBufferChecks(face.binary)
  /\ \A url \in FontUrls :
       fontCache[url] # NotCached => PassedResponseChecks(fontCache[url])

\* the content type is font/woff or font/woff2
IsFontType(contentType) == contentType \in {"font/woff", "font/woff2"}

\* C28: a face is in document.fonts only when its binary passed validation:
\* from the network and from the cache the buffer is at most 5 MB and starts
\* with wOF2 or wOFF; from the network the response also has the origin
\* https://fonts.gstatic.com, an ok status and the content type font/woff or
\* font/woff2; and loadFontFamily has cached no response that is not so.
C28_RegisteredOnlyAfterValidation ==
  /\ \A face \in documentFonts :
       /\ PassedBufferChecks(face.binary)
       /\ face.via = "network" =>
            /\ face.binary.url \in GstaticFontUrls
            /\ face.binary.ok
            /\ IsFontType(face.binary.contentType)
  /\ \A url \in FontUrls :
       fontCache[url] # NotCached =>
         /\ PassedBufferChecks(fontCache[url])
         /\ fontCache[url].url \in GstaticFontUrls
         /\ fontCache[url].ok
         /\ IsFontType(fontCache[url].contentType)

\* the page shells attached to the export root
PageShells == {n \in rootKids : n.node = "page"}

\* C31: at every moment of a rasterizePages run the export root holds at most
\* one page shell: while toPng renders page i the root holds the shell of
\* page i and no other, and at every other moment of the run it holds none.
C31_OnePageShellAtATime ==
  op \in RasterOps =>
    /\ Cardinality(PageShells) <= 1
    /\ (InFlight /\ pc = "r_toPng")
         => PageShells = {PageShell(pagination.offsets[pageIndex])}
    /\ (InFlight /\ pc # "r_toPng") => PageShells = {}

C31_Witness ==
  /\ op = "rasterizePages" /\ InFlight /\ pc = "r_toPng"
  /\ pageIndex = 2
  /\ Len(pages) = 1
  /\ PageShells = {PageShell(pagination.offsets[2])}
  /\ pagination.offsets[2] > 0

\* rasterizePages did not come to its return: it stopped before paginating or
\* with fewer images than pages
RasterizationFailed ==
  ~InFlight /\ (pagination = NoPagination \/ Len(pages) < pagination.pageCount)

\* C32: when rasterization fails inside exportPngZip the caller's promise
\* rejects and nothing after rasterization has happened: no archive entry, no
\* notification but the first, no download; and when converting a page or
\* generating the archive fails, no download is triggered and "done" is not
\* emitted.
C32_FailureStopsExportPngZip ==
  (op = "exportPngZip" /\ ~InFlight) =>
    /\ RasterizationFailed =>
         /\ settled.status = "rejected"
         /\ zipEntries = <<>>
         /\ Steps = <<"rasterize">>
         /\ downloads = <<>>
    /\ settled.status = "rejected" =>
         /\ downloads = <<>>
         /\ \A i \in 1..Len(Steps) : Steps[i] # "done"
    /\ settled.status = "fulfilled" =>
         /\ Len(downloads) = 1
         /\ Steps[Len(Steps)] = "done"

C32_Witness ==
  /\ op = "exportPngZip" /\ settled.status = "rejected"
  /\ pagination.pageCount = 2
  /\ Len(pages) = 1
  /\ RasterizationFailed
  /\ Steps = <<"rasterize">>

\* the handlers of a button that are inside their try block
Exporting(button) ==
  {i \in 1..Len(handlers) :
     handlers[i].button = button /\ handlers[i].at \in {"export", "blob"}}

\* C33: an export click handler disables its button only for the duration of
\* the export and re-enables it when the export ends, however it ends: a
\* disabled button has a handler inside its export, a handler entering its
\* export disables its button, a handler leaving it leaves the button enabled,
\* and a handler whose font warning was declined ends without touching the
\* button and without ever starting an export.
C33_ButtonReenabled ==
  /\ [](\A button \in Buttons : disabled[button] => Exporting(button) # {})
  /\ [][\A i \in 1..Len(handlers) :
          LET before == handlers[i].at
              after == handlers'[i].at
              button == handlers[i].button
          IN  /\ (before = "warning" /\ after = "export") => disabled'[button]
              /\ (before \in {"export", "blob"} /\ after = "done")
                   => ~disabled'[button]
              /\ (before = "warning" /\ after = "done") => disabled' = disabled
              /\ before = "done" => after = "done"
              /\ before = "warning" => after \in {"warning", "export", "done"}]_vars

C33_Witness ==
  /\ warn
  /\ Len(handlers) = 3
  /\ handlers[1].at = "done" /\ ~disabled[handlers[1].button]
  /\ handlers[2].at = "blob" /\ disabled[handlers[2].button]
  /\ handlers[3].at = "done"
  /\ handlers[3].button = handlers[1].button

\* ------------------------------------------------------------ termination
\* every continuation of a call in flight: an image event, or an awaited
\* step settling
Continues ==
  \/ ImageSettles
  \/ R_ResolveMeasure \/ R_WaitMeasure \/ R_ResolveTemplate \/ R_WaitTemplate
  \/ R_ToPng \/ Z_Blob \/ Z_Generate
  \/ P_ResolveMeasure \/ P_WaitMeasure \/ P_ResolveContent \/ P_WaitContent
  \/ P_Save

\* the default page with any images; the event loop runs one task after
\* another: a pending image fires load or error, an awaited step settles, and
\* the continuation then runs
InitLive ==
  /\ Init
  /\ env.probeWidthPx = 0
  /\ env.marginMm = DefaultMarginMm

SpecLive == InitLive /\ [][Next]_vars /\ WF_vars(Continues)

\* C34: when every image fires load or error and every awaited step settles,
\* every call of rasterizePages, exportPngZip and exportPdf ends, returning
\* or failing; the page loop never goes past pageCount iterations and has
\* made exactly pageCount of them when rasterizePages returns.
C34_CallsTerminate ==
  /\ (op \in ExportOps /\ InFlight) ~> ~InFlight
  /\ [](op \in RasterOps =>
          /\ pagination # NoPagination => pageIndex <= pagination.pageCount
          /\ (~InFlight /\ ~RasterizationFailed) =>
               /\ pageIndex = pagination.pageCount
               /\ Len(pages) = pagination.pageCount)

C34_Witness ==
  /\ op = "exportPngZip" /\ Returned
  /\ env.imgs = 1
  /\ pagination.pageCount = 2
  /\ pageIndex = 2
  /\ callNo = 2

\* ------------------------------------------------------ the live preview
debounce_noClear(pending, h, id) == [timers |-> pending \cup {id}, handle |-> id]

\* the function debounce returns: clearTimeout(handle) when handle is not
\* undefined, then handle = setTimeout(fn, waitMs), which returns id
debounce(pending, h, id) ==
  [timers |-> (IF h # NoHandle THEN pending \ {h} ELSE pending) \cup {id},
   handle |-> id]

\* Editor onUpdate: currentMarkdown = getMarkdown(); renderDebounced()
EditorUpdate ==
  \E text \in Texts :
    /\ edits < MaxEdits
    /\ edits' = edits + 1
    /\ currentMarkdown' = text
    /\ LET scheduled == debounce(timers, handle, edits + 1)
       IN  timers' = scheduled.timers /\ handle' = scheduled.handle
    /\ rendersSinceEdit' = 0
    /\ UNCHANGED <<previewHtml, outsideDebounce>>

\* a timeout fires: render()
TimerFires ==
  \E id \in timers :
    /\ timers' = timers \ {id}
    /\ previewHtml' = Render(currentMarkdown)
    /\ rendersSinceEdit' = rendersSinceEdit + 1
    /\ UNCHANGED <<currentMarkdown, handle, edits, outsideDebounce>>

NextDebounce == EditorUpdate \/ TimerFires

InitDebounce ==
  /\ Loaded
  /\ env = [probeWidthPx |-> 0, marginMm |-> DefaultMarginMm, imgs |-> 0,
            brokenImgs |-> 0]
  /\ args = NoArgs
  /\ warn = FALSE
  /\ settings = defaultSettings

\* a timeout set is a timeout that fires, unless it is cleared
SpecDebounce == InitDebounce /\ [][NextDebounce]_vars /\ WF_vars(TimerFires)

\* C35: the live preview is debounced: at most one render timer is pending,
\* and it is the one scheduled last; an editor update cancels the pending
\* timer and schedules a new one; once updates stop the render runs, exactly
\* once since the last update, and the preview then shows the rendering of
\* the latest text.
C35_Debounced ==
  /\ [](/\ Cardinality(timers) <= 1
        /\ timers \subseteq {handle}
        /\ rendersSinceEdit <= 1
        /\ timers # {} => rendersSinceEdit = 0
        /\ (timers = {} /\ edits > 0) => rendersSinceEdit = 1
        /\ timers = {} => previewHtml = [html |-> currentMarkdown])
  /\ [][(edits' # edits) =>
          /\ timers \cap timers' = {}
          /\ Cardinality(timers') = 1
          /\ \A id \in timers' : \A old \in timers : id > old]_vars
  /\ (timers # {}) ~> (timers = {} /\ previewHtml = [html |-> currentMarkdown])

C35_Witness ==
  /\ edits = 3
  /\ timers = {}
  /\ rendersSinceEdit = 1
  /\ currentMarkdown = 2
  /\ previewHtml = [html |-> 2]
  /\ handle = 3

\* ------------------------------------------------- the font status label
\* ensureFontLoaded with its loads reduced to their outcome: a call waits at
\* "cache" (loadFontFamilyFromCache), "resolve" (resolveFontVariants),
\* "status" (getFontCacheStatus) or "network" (loadFontFamily)
StatusJob(family, at) == [family |-> family, at |-> at]

\* updateFontStatusLabel(status), called by the call for family
updateFontStatusLabel(status, family) ==
  /\ fontStatus' = status
  /\ statusFamily' = family

\* fontSelect change: updateSettings({fontFamily}); ensureFontLoaded(value)
\* up to its first await; the family's variants are stored or they are not
SelectFontForStatus ==
  \E family \in MenuFonts \cup {SystemFont}, stored \in BOOLEAN :
    /\ CanStartFontOp
    /\ fontOps' = fontOps + 1
    /\ fontFamily' = family
    /\ IF family = SystemFont
       THEN /\ updateFontStatusLabel("cached", family)
            /\ UNCHANGED statusJobs
       ELSE /\ statusJobs' = statusJobs \cup
                 {StatusJob(family, IF stored THEN "cache" ELSE "resolve")}
            /\ UNCHANGED <<fontStatus, statusFamily>>
    /\ UNCHANGED outsideStatus

\* the continuation of ensureFontLoaded after the await of job settled, ok or
\* not: the cache load ends the call with "cached" or falls through; a failed
\* lookup ends it with "error"; getFontCacheStatus gives the label its status;
\* the network load ends the call with "cached" or "error"
ensureFontLoadedGoesOn(job, ok, status) ==
  IF job.at \in {"cache", "network"} /\ ok
  THEN /\ statusJobs' = statusJobs \ {job}
       /\ updateFontStatusLabel("cached", job.family)
  ELSE IF job.at \in {"resolve", "network"} /\ ~ok
  THEN /\ statusJobs' = statusJobs \ {job}
       /\ updateFontStatusLabel("error", job.family)
  ELSE IF job.at = "status"
  THEN /\ statusJobs' = (statusJobs \ {job}) \cup {StatusJob(job.family, "network")}
       /\ updateFontStatusLabel(status, job.family)
  ELSE /\ statusJobs' = (statusJobs \ {job}) \cup {StatusJob(job.family, "status")}
       /\ UNCHANGED <<fontStatus, statusFamily>>

\* an await of some ensureFontLoaded call settles
LoadSettles ==
  \E job \in statusJobs, ok \in BOOLEAN,
     status \in {"cached", "not_cached", "error"} :
    /\ ensureFontLoadedGoesOn(job, ok, status)
    /\ UNCHANGED <<fontFamily, fontOps, outsideStatus>>

NextFontStatus == SelectFontForStatus \/ LoadSettles

InitFontStatus ==
  /\ Loaded
  /\ env = [probeWidthPx |-> 0, marginMm |-> DefaultMarginMm, imgs |-> 0,
            brokenImgs |-> 0]
  /\ args = NoArgs
  /\ warn = FALSE
  /\ settings = defaultSettings

SpecFontStatus == InitFontStatus /\ [][NextFontStatus]_vars

\* C36: once every ensureFontLoaded call in flight has completed, the font
\* status label is the one written for the family selected now, not for a
\* family selected before whose load finished later.
C36_StatusOfSelectedFont ==
  statusJobs = {} => statusFamily = fontFamily

\* ------------------------------------------------------ the blob-URL cache
Digits == "0123456789"
\* the n-th object URL the browser makes for the blob of image id
ObjectUrl(id, n) == "blob:" \o id \o "/" \o SubSeq(Digits, n + 1, n + 1)

\* Map.set
MapSet(map, key, value) ==
  [k \in DOMAIN map \cup {key} |-> IF k = key THEN value ELSE map[k]]

\* getImage(id): the record of the store, or null
NoRecord == [none |-> TRUE]
getImage(id) == IF id \in DOMAIN imageDb THEN imageDb[id] ELSE NoRecord

IsAppImg(src) == startsWith(src, "appimg://")
\* src.slice("appimg://".length)
AppImgId(src) == SubSeq(src, Len("appimg://") + 1, Len(src))

\* getBlobUrl up to its await: a cached id answers at once
IsCached(id) == id \in DOMAIN blobUrlCache

\* resolveAppImages(container) up to the awaits of its map callbacks, over
\* the img elements content: an img whose id is cached gets the cached URL,
\* every other appimg:// img leaves a getBlobUrl call waiting for getImage
resolveStart(container, content) ==
  /\ images' = [images EXCEPT ![container] =
       [content EXCEPT !.imgs =
          [i \in DOMAIN content.imgs |->
             LET img == content.imgs[i]
             IN  IF IsAppImg(img.src) /\ IsCached(AppImgId(img.src))
                 THEN [img EXCEPT !.src = blobUrlCache[AppImgId(img.src)]]
                 ELSE img]]]
  /\ blobCalls' = blobCalls \cup
       {[container |-> container, made |-> content.made, idx |-> i,
         id |-> AppImgId(content.imgs[i].src)] :
          i \in {j \in DOMAIN content.imgs :
                   /\ IsAppImg(content.imgs[j].src)
                   /\ ~IsCached(AppImgId(content.imgs[j].src))}}

\* render(): preview.innerHTML = html; void resolveAppImages(preview)
RenderPreview ==
  \E doc \in Documents :
    /\ resolves < MaxResolves
    /\ resolves' = resolves + 1
    /\ resolveStart("preview", Content(resolves + 1, doc))
    /\ UNCHANGED <<imageDb, blobUrlCache, objectUrls, storeCalls, uuids,
                   outsideImage>>

\* an export clones the preview and resolves the images of the clone
ExportResolves ==
  /\ resolves < MaxResolves
  /\ resolves' = resolves + 1
  /\ resolveStart("export",
                  [made |-> resolves + 1, imgs |-> images["preview"].imgs])
  /\ UNCHANGED <<imageDb, blobUrlCache, objectUrls, storeCalls, uuids,
                 outsideImage>>

\* the img of a call, while it is still the container's
Attached(call) ==
  /\ images[call.container].made = call.made
  /\ call.idx \in DOMAIN images[call.container].imgs

SetImg(call, img) ==
  IF Attached(call)
  THEN images' = [images EXCEPT ![call.container].imgs[call.idx] = img]
  ELSE UNCHANGED images

\* getImage settles for one waiting getBlobUrl call: without a record the
\* img is marked missing; with one, an object URL is created, cached and
\* given to the img; a failed request leaves everything as it is
GetImageSettles ==
  \E call \in blobCalls, ok \in BOOLEAN :
    LET record == getImage(call.id)
        url == ObjectUrl(call.id, objectUrls[call.id])
        img == IF Attached(call)
               THEN images[call.container].imgs[call.idx]
               ELSE Img(AppImg(call.id))
    IN  /\ blobCalls' = blobCalls \ {call}
        /\ IF ~ok
           THEN UNCHANGED <<images, blobUrlCache, objectUrls>>
           ELSE IF record = NoRecord
           THEN /\ SetImg(call, [img EXCEPT !.missing = TRUE])
                /\ UNCHANGED <<blobUrlCache, objectUrls>>
           ELSE /\ objectUrls' = [objectUrls EXCEPT ![call.id] = @ + 1]
                /\ blobUrlCache' = MapSet(blobUrlCache, call.id, url)
                /\ SetImg(call, [img EXCEPT !.src = url])
        /\ UNCHANGED <<imageDb, resolves, storeCalls, uuids, outsideImage>>

NextBlobUrls == RenderPreview \/ ExportResolves \/ GetImageSettles

InitBlobUrls ==
  /\ Loaded
  /\ env = [probeWidthPx |-> 0, marginMm |-> DefaultMarginMm, imgs |-> 0,
            brokenImgs |-> 0]
  /\ args = NoArgs
  /\ warn = FALSE
  /\ settings = defaultSettings

SpecBlobUrls == InitBlobUrls /\ [][NextBlobUrls]_vars

\* the blob: URLs the img elements of the page hold
BlobSrcs == {images[c].imgs[i].src : <<c, i>> \in
               {p \in Containers \X (1..2) : p[2] \in DOMAIN images[p[1]].imgs}}
              \ {AppImg(StoredId), AppImg(MissingId)}

\* C37: URL.createObjectURL runs at most once for each image id, and all img
\* elements with one id hold the same URL.
C37_OneObjectUrlPerId ==
  /\ \A id \in DOMAIN objectUrls : objectUrls[id] <= 1
  /\ Cardinality(BlobSrcs) <= 1

\* ------------------------------------------------------- storeImageFile
MAX_IMAGE_BYTES == 16 * 1024 * 1024
ALLOWED_TYPES == {"image/png", "image/jpeg", "image/webp", "image/gif"}

\* the files dropped or pasted: type and size vary, the name is one that
\* fallbackAlt has to clean
FileTypes == ALLOWED_TYPES \cup {"image/svg+xml", ""}
FileSizes == {MAX_IMAGE_BYTES, MAX_IMAGE_BYTES + 1}
FileName == " cat [1].png"
File(name, type, size) == [name |-> name, type |-> type, size |-> size]

\* String.prototype.trim, for spaces
RECURSIVE trim(_)
trim(str) ==
  IF str = "" THEN str
  ELSE IF SubSeq(str, 1, 1) = " " THEN trim(SubSeq(str, 2, Len(str)))
  ELSE IF SubSeq(str, Len(str), Len(str)) = " "
  THEN trim(SubSeq(str, 1, Len(str) - 1))
  ELSE str

\* alt.replace(/[\[\]]/g, "").trim()
RECURSIVE withoutBrackets(_)
withoutBrackets(str) ==
  IF str = "" THEN str
  ELSE IF SubSeq(str, 1, 1) \in {"[", "]"}
  THEN withoutBrackets(SubSeq(str, 2, Len(str)))
  ELSE SubSeq(str, 1, 1) \o withoutBrackets(SubSeq(str, 2, Len(str)))
sanitizeAlt(alt) == trim(withoutBrackets(alt))

\* trimmed.replace(/\.[^.]+$/, ""): the last dot and what follows it go, if
\* something follows it
LastDot(str) ==
  LET dots == {i \in 1..Len(str) : SubSeq(str, i, i) = "."}
  IN  IF dots = {} THEN 0 ELSE CHOOSE i \in dots : \A j \in dots : j <= i
noExtension(str) ==
  IF LastDot(str) > 0 /\ LastDot(str) < Len(str)
  THEN SubSeq(str, 1, LastDot(str) - 1)
  ELSE str
fallbackAlt(fileName) ==
  LET trimmed == trim(fileName)
  IN  IF trimmed = "" THEN "image"
      ELSE sanitizeAlt(IF noExtension(trimmed) = "" THEN trimmed
                       ELSE noExtension(trimmed))

\* file.name || "image"
NameOf(file) == IF file.name = "" THEN "image" ELSE file.name

\* crypto.randomUUID(): the n-th id, different from every id given before
\* and from the ids of the database
randomUUID(n) == "u" \o SubSeq(Digits, n + 1, n + 1)

\* the two early returns of storeImageFile
RefusalOf_typeOnly(file, allowLarge) ==
  IF file.type \notin ALLOWED_TYPES THEN "Unsupported file type." ELSE ""
RefusalOf(file, allowLarge) ==
  IF file.type \notin ALLOWED_TYPES THEN "Unsupported file type."
  ELSE IF ~allowLarge /\ file.size > MAX_IMAGE_BYTES
  THEN "Image exceeds 16 MB limit."
  ELSE ""

NoResult == [none |-> TRUE]
StoreImageError(file, reason) == [name |-> NameOf(file), reason |-> reason]
StoreImageResult(file, id) ==
  [id |-> id, name |-> NameOf(file),
   markdown |-> "![" \o fallbackAlt(file.name) \o "](" \o AppImg(id) \o ")",
   alt |-> fallbackAlt(file.name), src |-> AppImg(id)]

StoreCall(no, file, allowLarge, id, at, result) ==
  [no |-> no, file |-> file, allowLarge |-> allowLarge, id |-> id, at |-> at,
   result |-> result]

\* storeImageFile(file, allowLarge) up to its await: a refused file returns
\* an error value, any other gets an id and waits for putImage
StoreImageFile ==
  \E type \in FileTypes, size \in FileSizes, allowLarge \in BOOLEAN :
    LET file == File(FileName, type, size)
        no == Cardinality(storeCalls) + 1
        reason == RefusalOf(file, allowLarge)
    IN  /\ no <= MaxStores
        /\ IF reason # ""
           THEN /\ storeCalls' = storeCalls \cup
                     {StoreCall(no, file, allowLarge, "", "returned",
                                StoreImageError(file, reason))}
                /\ UNCHANGED uuids
           ELSE /\ uuids' = uuids + 1
                /\ storeCalls' = storeCalls \cup
                     {StoreCall(no, file, allowLarge, randomUUID(uuids + 1),
                                "putImage", NoResult)}
        /\ UNCHANGED <<imageDb, blobUrlCache, objectUrls, images, blobCalls,
                       resolves, outsideImage>>

\* putImage(record) settles: the transaction completed and the record is in
\* the store under its id, or it failed and storeImageFile rejects
PutImageSettles ==
  \E call \in {c \in storeCalls : c.at = "putImage"}, ok \in BOOLEAN :
    /\ IF ok
       THEN /\ imageDb' = MapSet(imageDb, call.id,
                 StoredImage(call.id, NameOf(call.file), call.file.type,
                             call.file.size))
            /\ storeCalls' = (storeCalls \ {call}) \cup
                 {[call EXCEPT !.at = "returned",
                               !.result = StoreImageResult(call.file, call.id)]}
       ELSE /\ UNCHANGED imageDb
            /\ storeCalls' = (storeCalls \ {call}) \cup
                 {[call EXCEPT !.at = "threw"]}
    /\ UNCHANGED <<blobUrlCache, objectUrls, images, blobCalls, resolves,
                   uuids, outsideImage>>

NextStoreImage == StoreImageFile \/ PutImageSettles

InitStoreImage ==
  /\ Loaded
  /\ env = [probeWidthPx |-> 0, marginMm |-> DefaultMarginMm, imgs |-> 0,
            brokenImgs |-> 0]
  /\ args = NoArgs
  /\ warn = FALSE
  /\ settings = defaultSettings

SpecStoreImage == InitStoreImage /\ [][NextStoreImage]_vars

\* the claim's cases, stated on the file of a call
Refused(call) ==
  \/ call.file.type \notin {"image/png", "image/jpeg", "image/webp", "image/gif"}
  \/ call.file.size > 16777216 /\ ~call.allowLarge
IsErrorValue(result) == "reason" \in DOMAIN result
StoredOne(call) ==
  /\ call.at = "returned"
  /\ ~IsErrorValue(call.result)
  /\ call.result.id \in DOMAIN imageDb \ {StoredId}
  /\ imageDb[call.result.id].id = call.result.id
  /\ imageDb[call.result.id].mime = call.file.type
  /\ imageDb[call.result.id].size = call.file.size
  /\ \A other \in storeCalls \ {call} : other.id # call.result.id
  /\ call.result.src = "appimg://" \o call.result.id
  /\ call.result.markdown = "![cat 1](appimg://" \o call.result.id \o ")"
AcceptedAndStored == {call \in storeCalls : ~Refused(call) /\ StoredOne(call)}
RefusedStoresNothing ==
  /\ \A call \in storeCalls :
       Refused(call) => /\ call.at = "returned"
                        /\ IsErrorValue(call.result)
  /\ Cardinality(DOMAIN imageDb) = 1 + Cardinality(AcceptedAndStored)

\* C38 as stated: a refused file returns an error value and stores nothing;
\* every other file stores exactly one record under a fresh id and returns
\* markdown referencing appimg://<that id>.
C38_Original ==
  /\ RefusedStoresNothing
  /\ \A call \in storeCalls :
       (~Refused(call) /\ call.at # "putImage") => StoredOne(call)

\* C38: a refused file returns an error value and stores nothing; every
\* other file, once putImage completed, has stored exactly one record under
\* a fresh id and returned markdown referencing appimg://<that id>; when
\* putImage fails the call rejects and has stored nothing.
C38_StoreImageFile ==
  /\ RefusedStoresNothing
  /\ \A call \in storeCalls :
       ~Refused(call) =>
          \/ call.at = "putImage"
          \/ StoredOne(call)
          \/ call.at = "threw" /\ call.id \notin DOMAIN imageDb

C38_Witness ==
  /\ \E call \in storeCalls : Refused(call) /\ call.file.type \in ALLOWED_TYPES
  /\ \E call \in storeCalls : ~Refused(call) /\ call.allowLarge /\ StoredOne(call)
       /\ call.file.size > MAX_IMAGE_BYTES

\* ------------------------------------------------- settings in localStorage
\* the decimal digits of a natural number
RECURSIVE natText(_)
natText(n) ==
  IF n < 10 THEN SubSeq(Digits, n + 1, n + 1)
  ELSE natText(n \div 10) \o SubSeq(Digits, (n % 10) + 1, (n % 10) + 1)

numberText_integer(n) ==
  (IF n < 0 THEN "-" ELSE "") \o
  natText((IF n < 0 THEN -n ELSE n) \div PxScale)
\* JSON.stringify of a number: the shortest decimal, "1.6" for 1.6
numberText(n) ==
  LET abs == IF n < 0 THEN -n ELSE n
      whole == abs \div PxScale
      frac == abs % PxScale
  IN  (IF n < 0 THEN "-" ELSE "") \o natText(whole) \o
      (IF frac = 0 THEN ""
       ELSE IF frac % 10 = 0 THEN "." \o natText(frac \div 10)
       ELSE "." \o (IF frac < 10 THEN "0" ELSE "") \o natText(frac))

\* JSON.stringify of a string: quoted, with " and \ escaped
RECURSIVE escaped(_)
escaped(s) ==
  IF s = "" THEN s
  ELSE (IF SubSeq(s, 1, 1) \in {"\"", "\\"} THEN "\\" ELSE "") \o
       SubSeq(s, 1, 1) \o escaped(SubSeq(s, 2, Len(s)))
stringText(s) == "\"" \o escaped(s) \o "\""

valueText(v) ==
  IF v.t = "number" THEN numberText(v.n)
  ELSE IF v.t = "boolean" THEN (IF v.b THEN "true" ELSE "false")
  ELSE IF v.t = "string" THEN stringText(v.s)
  ELSE "null"

\* JSON.stringify(settings): the members in the order of the object's keys
RECURSIVE membersText(_, _)
membersText(obj, keys) ==
  IF keys = <<>> THEN ""
  ELSE stringText(Head(keys)) \o ":" \o valueText(obj[Head(keys)]) \o
       (IF Len(keys) > 1 THEN "," ELSE "") \o membersText(obj, Tail(keys))
\* the elements of a set of strings, one after the other
RECURSIVE SeqOf(_)
SeqOf(set) ==
  IF set = {} THEN <<>>
  ELSE LET x == CHOOSE y \in set : TRUE IN <<x>> \o SeqOf(set \ {x})
\* the keys of {...defaultSettings, ...parsed}: the defaults' first
KeysOf(obj) ==
  SelectSeq(SettingsKeys, LAMBDA k : k \in DOMAIN obj) \o
  SeqOf(DOMAIN obj \ {SettingsKeys[i] : i \in DOMAIN SettingsKeys})
JSONstringify(obj) == "{" \o membersText(obj, KeysOf(obj)) \o "}"

\* JSON.parse, for text without white space, exponents, arrays and nested
\* objects.  Each parser answers [ok, v, next]: the value read and the
\* position after it.
Ch(text, i) == IF i >= 1 /\ i <= Len(text) THEN SubSeq(text, i, i) ELSE ""
IsDigit(c) == c # "" /\ \E d \in 1..10 : SubSeq(Digits, d, d) = c
DigitOf(c) == (CHOOSE d \in 1..10 : SubSeq(Digits, d, d) = c) - 1
Failed == [ok |-> FALSE, v |-> Null, next |-> 0]
Read(v, next) == [ok |-> TRUE, v |-> v, next |-> next]

\* the characters of a string up to its closing quote
RECURSIVE parseChars(_, _, _)
parseChars(text, i, acc) ==
  IF Ch(text, i) = "" THEN Failed
  ELSE IF Ch(text, i) = "\"" THEN Read(Str(acc), i + 1)
  ELSE IF Ch(text, i) = "\\"
  THEN IF Ch(text, i + 1) \in {"\"", "\\", "/"}
       THEN parseChars(text, i + 2, acc \o Ch(text, i + 1))
       ELSE Failed
  ELSE parseChars(text, i + 1, acc \o Ch(text, i))
parseString(text, i) ==
  IF Ch(text, i) = "\"" THEN parseChars(text, i + 1, "") ELSE Failed

\* digits from position i on: [n, next, count]
RECURSIVE parseDigits(_, _, _, _)
parseDigits(text, i, n, count) ==
  IF IsDigit(Ch(text, i))
  THEN parseDigits(text, i + 1, 10 * n + DigitOf(Ch(text, i)), count + 1)
  ELSE [n |-> n, next |-> i, count |-> count]
\* -?digits(.digits)?, with at most two decimals
parseNumber(text, i) ==
  LET neg == Ch(text, i) = "-"
      whole == parseDigits(text, IF neg THEN i + 1 ELSE i, 0, 0)
      dot == Ch(text, whole.next) = "."
      frac == parseDigits(text, whole.next + 1, 0, 0)
      hundredths == IF frac.count = 1 THEN 10 * frac.n ELSE frac.n
      abs == whole.n * PxScale + (IF dot THEN hundredths ELSE 0)
  IN  IF whole.count = 0 \/ (dot /\ frac.count \notin {1, 2}) THEN Failed
      ELSE Read(Num(IF neg THEN -abs ELSE abs),
                IF dot THEN frac.next ELSE whole.next)

WordAt(text, i, word) ==
  /\ i + Len(word) - 1 <= Len(text)
  /\ SubSeq(text, i, i + Len(word) - 1) = word

parseValue(text, i) ==
  IF Ch(text, i) = "\"" THEN parseString(text, i)
  ELSE IF Ch(text, i) = "-" \/ IsDigit(Ch(text, i)) THEN parseNumber(text, i)
  ELSE IF WordAt(text, i, "true") THEN Read(Bool(TRUE), i + 4)
  ELSE IF WordAt(text, i, "false") THEN Read(Bool(FALSE), i + 5)
  ELSE IF WordAt(text, i, "null") THEN Read(Null, i + 4)
  ELSE Failed

\* the members of an object from position i on, added to acc: a later
\* member replaces an earlier one of the same key
RECURSIVE parseMembers(_, _, _)
parseMembers(text, i, acc) ==
  LET key == parseString(text, i)
      value == parseValue(text, key.next + 1)
  IN  IF ~key.ok \/ Ch(text, key.next) # ":" THEN Failed
      ELSE IF ~value.ok THEN Failed
      ELSE IF Ch(text, value.next) = ","
      THEN parseMembers(text, value.next + 1, MapSet(acc, key.v.s, value.v))
      ELSE IF Ch(text, value.next) = "}"
      THEN [ok |-> TRUE, v |-> MapSet(acc, key.v.s, value.v),
            next |-> value.next + 1]
      ELSE Failed

\* the properties of a string: its characters under their indices
CharMembers(str) ==
  [k \in {natText(i - 1) : i \in 1..Len(str)} |->
     Str(Ch(str, CHOOSE i \in 1..Len(str) : natText(i - 1) = k))]

\* JSON.parse(text): [ok, object, members]; ok is FALSE where it throws,
\* object is FALSE for a value with no properties of its own
SyntaxError == [ok |-> FALSE, object |-> FALSE, members |-> <<>>]
JSONparse(text) ==
  IF Ch(text, 1) = "{"
  THEN IF text = "{}" THEN [ok |-> TRUE, object |-> TRUE, members |-> <<>>]
       ELSE LET r == parseMembers(text, 2, <<>>)
            IN  IF r.ok /\ r.next = Len(text) + 1
                THEN [ok |-> TRUE, object |-> TRUE, members |-> r.v]
                ELSE SyntaxError
  ELSE LET r == parseValue(text, 1)
       IN  IF r.ok /\ r.next = Len(text) + 1 /\ r.v.t # "string"
           THEN [ok |-> TRUE, object |-> FALSE, members |-> <<>>]
           ELSE IF r.ok /\ r.next = Len(text) + 1
           THEN [ok |-> TRUE, object |-> TRUE, members |-> CharMembers(r.v.s)]
           ELSE SyntaxError

\* { ...defaultSettings, ...parsed }
Spread(base, members) ==
  [k \in DOMAIN base \cup DOMAIN members |->
     IF k \in DOMAIN members THEN members[k] ELSE base[k]]

loadSettings_defaults(item) == defaultAppSettings
\* loadSettings: the defaults without an item (or with an empty one) and
\* when JSON.parse throws, else the parsed object spread over the defaults
loadSettings(item) ==
  IF ~item.present \/ item.text = "" THEN defaultAppSettings
  ELSE LET parsed == JSONparse(item.text)
       IN  IF ~parsed.ok THEN defaultAppSettings
           ELSE IF parsed.object THEN Spread(defaultAppSettings, parsed.members)
           ELSE defaultAppSettings

\* texts that are not JSON
InvalidTexts == {"{", "not json", "{\"theme\":\"dark\",}", "{theme:1}"}
\* what the page may find stored: nothing, an empty text, no JSON, JSON of
\* another shape, settings saved earlier
StoredItems ==
  {NoItem, Item("")} \cup {Item(text) : text \in InvalidTexts}
  \cup {Item("null"), Item("5"), Item("{}"), Item("{\"zoom\":2}"),
        Item(JSONstringify([defaultAppSettings EXCEPT !.theme = Str("paper")]))}

\* the partial settings the controls pass to updateSettings
Patches ==
  {[theme |-> Str("dark")], [fontSize |-> Num(Px(12))],
   [lineHeight |-> Num(165)], [maxWidth |-> Num(Px(210))],
   [paragraphSpacing |-> Num(Px(6))], [pdfMethod |-> Str("html2pdf")],
   [maxPages |-> Num(Px(PromptMax))], [fontFamily |-> Str("Source Sans 3")],
   [warnOnOfflineFont |-> Bool(FALSE)]}
Toggles == {"allowLargeImages", "advancedPages"}

\* saveSettings
saveSettings(st) == Item(JSONstringify(st))

\* Object.assign(settings, next) of updateSettings
updateSettings(st, next) == Spread(st, next)

\* a control calls updateSettings(next): the settings change and are saved
UpdateSettings ==
  \E next \in Patches :
    /\ settingsOps < MaxSettingsOps
    /\ settingsOps' = settingsOps + 1
    /\ appSettings' = updateSettings(appSettings, next)
    /\ localStorage' = saveSettings(updateSettings(appSettings, next))
    /\ UNCHANGED <<session, outsidePersist>>

\* the toggles pass the negation of the field
ToggleSetting ==
  \E key \in Toggles :
    LET next == key :> Bool(~appSettings[key].b)
    IN  /\ settingsOps < MaxSettingsOps
        /\ settingsOps' = settingsOps + 1
        /\ appSettings' = updateSettings(appSettings, next)
        /\ localStorage' = saveSettings(updateSettings(appSettings, next))
        /\ UNCHANGED <<session, outsidePersist>>

\* the page is loaded again: settings = loadSettings()
PageLoad ==
  /\ settingsOps < MaxSettingsOps
  /\ settingsOps' = settingsOps + 1
  /\ appSettings' = loadSettings(localStorage)
  /\ session' = [loaded |-> TRUE, before |-> appSettings,
                 after |-> loadSettings(localStorage)]
  /\ UNCHANGED <<localStorage, outsidePersist>>

NextPersist == UpdateSettings \/ ToggleSetting \/ PageLoad

InitPersist ==
  /\ LoadedApart
  /\ localStorage \in StoredItems
  /\ appSettings = loadSettings(localStorage)
  /\ env = [probeWidthPx |-> 0, marginMm |-> DefaultMarginMm, imgs |-> 0,
            brokenImgs |-> 0]
  /\ args = NoArgs
  /\ warn = FALSE
  /\ settings = defaultSettings

SpecPersist == InitPersist /\ [][NextPersist]_vars

\* C39: the settings a page load returns equal, field by field, the settings
\* in memory when the page was left, and they are the defaults when nothing
\* is stored or the stored text is not valid JSON.
C39_RefreshRestoresSettings ==
  /\ session.loaded =>
       /\ DOMAIN session.after = DOMAIN session.before
       /\ \A k \in DOMAIN session.before : session.after[k] = session.before[k]
  /\ (~localStorage.present \/ localStorage.text \in InvalidTexts) =>
       appSettings = defaultAppSettings

C39_Witness ==
  /\ session.loaded
  /\ session.before.lineHeight = Num(165)
  /\ session.after.lineHeight = Num(165)
  /\ session.after.fontFamily = Str("Source Sans 3")

====
